---------------------------- MODULE Spec2Model ----------------------------
(**************************************************************************)
(* Model of the PrimeTrade.ai backend (vijendramane/Crypto_Trader):       *)
(* account registration and login with lockout, the IP rate limiters in   *)
(* front of them, the bearer-token session middleware, and the trading    *)
(* strategy approval workflow with its read-through cache.                *)
(*                                                                        *)
(* Time is Date.now() in milliseconds.  The clock advances in steps of    *)
(* Tick milliseconds (fifteen minutes, which divides the durations of the *)
(* session lifecycle: the 15 minute login window, the 30 minute lock, the *)
(* 60 minute registration window and token lifetime).                     *)
(*                                                                        *)
(* A request handler is an async function: it runs without interruption   *)
(* until it awaits a database call whose result it uses, so the login and *)
(* register handlers are two steps each (the lookup, then the write that  *)
(* is computed from the row read by the lookup) and other requests may    *)
(* run between the two.                                                   *)
(* The strategy handlers are followed one request at a time (a handler is *)
(* one step), by callers that hold a valid access token.                  *)
(*                                                                        *)
(* Behaviours: Spec (logins that race), SpecSession (one client: login    *)
(* and a protected route), SpecRegister (registrations that race),        *)
(* SpecFirstAccounts (the same on an empty database), SpecStrategy (the   *)
(* approval workflow), SpecCache (the workflow with the cached lists read *)
(* in between), SpecTokens (tokens that age, refresh and logout),         *)
(* SpecRefresh (a client that logs in and refreshes) and SpecAdminRoutes  *)
(* (the admin routes called with every kind of header).                   *)
(**************************************************************************)
EXTENDS Integers, Sequences, FiniteSets, TLC

(* ----------------------------- bounds --------------------------------- *)
\* clock steps followed while logins race (a lock lasts two steps)
MaxTicks == 2
\* clock steps followed in the session of one client (a lock set in the
\* second login window ends after the third step)
SessionTicks == 3
\* clock steps followed in the strategy workflow (a cached list lives for
\* less than one step)
StrategyTicks == 1
\* strategies that are created
MaxStrategies == 1
\* steps of half a refresh token lifetime followed while tokens age (a token
\* of the second step expires at the fourth)
TokenSteps == 3
\* clock steps followed while one client logs in and refreshes (a lock set
\* at the first step holds at the second)
RefreshTicks == 2
\* steps of five minutes followed while one client sends login requests (the
\* window of the login limiter is three of them)
LimiterTicks == 4
\* steps of five minutes followed while passwords are reset (a reset token
\* lives for two of them)
ResetTicks == 3

(* ------------------------ program constants --------------------------- *)
Tick == 15 * 60 * 1000

maxAttempts == 5
lockDuration == 30 * 60 * 1000

loginWindowMs == 15 * 60 * 1000
loginMax == 5
registerWindowMs == 60 * 60 * 1000
registerMax == 3
resetWindowMs == 60 * 60 * 1000
resetMax == 3
resetTokenLifetime == 10 * 60 * 1000

(* --------------------------- value spaces ----------------------------- *)
\* the request slots: two requests can be in flight at the same time
Procs == 1..2
IPs == {"10.0.0.1"}
Emails == {"john@x.io", "John@X.io", "jane@x.io"}
Passwords == {"Test123!@#", "WrongPassword"}

\* null, and a present value: a nullable column or a lookup result
Null == << >>
Some(x) == << x >>

Max(a, b) == IF a >= b THEN a ELSE b

\* a table or key space with nothing in it
NoRows == [i \in {} |-> Null]

\* no refresh token was accepted yet
NoHistory ==
    [refreshed |-> {}, loggedOut |-> {}, issued |-> {}, reset |-> {},
     logins |-> << >>]

\* String.prototype.toLowerCase on the addresses of the model
toLowerCase(e) == IF e = "John@X.io" THEN "john@x.io" ELSE e

\* bcrypt.hash: one-way, so a hash is compared only by hashing again
bcryptHash(pw) == << "bcrypt", pw >>

VARIABLES
    now,        \* Date.now()
    users,      \* table users: id -> row
    pc,         \* per request slot: where its handler is suspended
    req,        \* per request slot: the request being handled
    found,      \* per request slot: the User instance the handler loaded
    limiter,    \* express-rate-limit memory stores: route -> ip -> counter
    wallet,     \* the token pair each account's client holds (latest issued)
    last,       \* the response the step just taken sent, if it sent one
    wrongRun,   \* per account: failed password checks in a row (history,
                \* counted up to maxAttempts + 1)
    strategies, \* table trading_strategies: id -> row
    cache,      \* the Redis keys that are set: key -> entry
    history     \* the refresh tokens POST /auth/refresh has accepted, those of
                \* them whose account has logged out since, the password reset
                \* tokens that were issued and those a reset was answered 200
                \* for (history)

vars == << now, users, pc, req, found, limiter, wallet, last, wrongRun,
           strategies, cache, history >>

\* the tables and keys of the strategy workflow
strategyVars == << strategies, cache >>


UserIds == 1..Cardinality({toLowerCase(e) : e \in Emails})

(* ------------------------------ User model ---------------------------- *)
\* a lookup that compares the address as it was typed
findByEmailExact(email) ==
    LET m == {i \in DOMAIN users : users[i].email = email}
    IN  IF m = {} THEN Null ELSE Some(users[CHOOSE i \in m : TRUE])

\* User.findByEmail: the row whose email is the lower-cased address, or null
findByEmail(email) ==
    LET m == {i \in DOMAIN users : users[i].email = toLowerCase(email)}
    IN  IF m = {} THEN Null ELSE Some(users[CHOOSE i \in m : TRUE])

\* User.findByPk
findByPk(id) == IF id \in DOMAIN users THEN Some(users[id]) ELSE Null

\* user.comparePassword: bcrypt.compare(candidate, this.password)
comparePassword(user, candidate) == bcryptHash(candidate) = user.password

\* instance.update(values): UPDATE users SET <the given columns> WHERE id
\* (the other columns of the stored row are not written)
UpdateRow(row, values) ==
    [f \in DOMAIN row |-> IF f \in DOMAIN values THEN values[f] ELSE row[f]]

\* user.toJSON: the row without its password and its reset token columns
toJSON(row) ==
    [f \in DOMAIN row \ {"password", "passwordResetToken", "passwordResetExpires"}
        |-> row[f]]

\* the default of the profile column: the object {}
NoProfile == [k \in {} |-> ""]

\* a row that keeps the address as it was typed
NewUserRowAsTyped(id, email, password) ==
    [id |-> id, email |-> email, password |-> bcryptHash(password),
     role |-> "user", loginAttempts |-> 0, lockUntil |-> Null, lastLogin |-> Null,
     passwordResetToken |-> Null, passwordResetExpires |-> Null,
     firstName |-> "Test", lastName |-> "User", profile |-> NoProfile,
     isEmailVerified |-> FALSE, emailVerificationToken |-> Null]

\* the row User.create inserts: createUser lower-cases the address and hashes
\* the password, the other columns take the defaults of User.init (every
\* registration of the model gives the same first and last name)
NewUserRow(id, email, password) ==
    [id |-> id, email |-> toLowerCase(email), password |-> bcryptHash(password),
     role |-> "user", loginAttempts |-> 0, lockUntil |-> Null, lastLogin |-> Null,
     passwordResetToken |-> Null, passwordResetExpires |-> Null,
     firstName |-> "Test", lastName |-> "User", profile |-> NoProfile,
     isEmailVerified |-> FALSE, emailVerificationToken |-> Null]

\* User.createUser(userData): User.create({...userData, email, password}), a
\* column userData names takes its value, another one its default
createUser(id, userData) ==
    LET row == NewUserRow(id, userData.email, userData.password)
    IN  IF userData.role = Null THEN row ELSE [row EXCEPT !.role = userData.role[1]]

(* -------------------------------- JWTUtil ----------------------------- *)
accessExpiresIn == 60 * 60 * 1000
refreshExpiresIn == 7 * 24 * 60 * 60 * 1000

\* a token pair signed with one key
generateTokenPairOneKey(user, t) ==
    [accessToken  |-> [secret |-> "JWT_REFRESH_SECRET", exp |-> t + accessExpiresIn,
                       payload |-> [id |-> user.id, email |-> user.email,
                                    role |-> user.role]],
     refreshToken |-> [secret |-> "JWT_REFRESH_SECRET", exp |-> t + refreshExpiresIn,
                       payload |-> [id |-> user.id]],
     expiresIn |-> "1h"]

\* JWTUtil.generateTokenPair: the access token is signed with JWT_SECRET and
\* carries id, email and role, the refresh token is signed with
\* JWT_REFRESH_SECRET and carries the id alone
generateTokenPair(user, t) ==
    [accessToken  |-> [secret |-> "JWT_SECRET", exp |-> t + accessExpiresIn,
                       payload |-> [id |-> user.id, email |-> user.email,
                                    role |-> user.role]],
     refreshToken |-> [secret |-> "JWT_REFRESH_SECRET", exp |-> t + refreshExpiresIn,
                       payload |-> [id |-> user.id]],
     expiresIn |-> "1h"]

\* an extraction that takes the second part under any scheme
extractTokenAnyScheme(authHeader) ==
    IF authHeader = Null THEN Null
    ELSE IF Len(authHeader) # 2 THEN Null
    ELSE Some(authHeader[2])

\* JWTUtil.extractTokenFromHeader: a header is its space-separated parts
extractTokenFromHeader(authHeader) ==
    IF authHeader = Null THEN Null
    ELSE IF Len(authHeader) # 2 \/ authHeader[1] # "Bearer" THEN Null
    ELSE Some(authHeader[2])

\* JWTUtil.verifyAccessToken: the signature is checked before the expiry
verifyAccessToken(token, t) ==
    IF token.secret # "JWT_SECRET" THEN [error |-> "Invalid token"]
    ELSE IF t >= token.exp THEN [error |-> "Token expired"]
    ELSE [error |-> "", decoded |-> token.payload]

(* ------------------------- express-rate-limit ------------------------- *)
\* One hit of the limiter createRateLimit(windowMs, max) builds, for the
\* client address ip at time t: the memory store counts the hits of a key in
\* its current window and the request is refused once the count exceeds max.
\* The count saturates at max + 1 (a larger count answers the same).
RateLimitHit(store, ip, windowMs, max, t) ==
    LET c   == store[ip]
        new == IF t >= c.resetTime
               THEN [hits |-> 1, resetTime |-> t + windowMs]
               ELSE [hits |-> IF c.hits > max THEN c.hits ELSE c.hits + 1,
                     resetTime |-> c.resetTime]
    IN  [store |-> [store EXCEPT ![ip] = new], limited |-> new.hits > max]

\* a step that sends no response
NoResponse ==
    [op |-> "", password |-> "", acct |-> 0, pre |-> Null,
     status |-> 0, code |-> "", body |-> Null]

RateLimited ==
    [op |-> "rateLimit", password |-> "", acct |-> 0, pre |-> Null,
     status |-> 429, code |-> "RATE_LIMIT_EXCEEDED", body |-> Null]

\* the times of the requests that passed the login limiter and reached the
\* handler in the fifteen minutes that end at t, the one at t included, and
\* at most loginMax + 1 of them (a record kept for the properties)
Passed(times, t) ==
    LET IsRecent(u) == t - u < loginWindowMs
        all == Append(SelectSeq(times, IsRecent), t)
    IN  IF Len(all) > loginMax + 1 THEN Tail(all) ELSE all

(* ------------------------- AuthController.login ----------------------- *)
\* a lock test with the comparison turned around
LoginIsLockedReversed(user, t) == user.lockUntil # Null /\ user.lockUntil[1] < t

\* the account-is-locked test of the login handler
LoginIsLocked(user, t) == user.lockUntil # Null /\ user.lockUntil[1] > t

\* Math.ceil((user.lockUntil - Date.now()) / 1000 / 60)
lockTimeRemaining(user, t) == ((user.lockUntil[1] - t) + 59999) \div 60000

\* the loginAttempts value of the stored row (a read at the time of the write)
StoredAttempts(p) == users[found[p][1].id].loginAttempts

\* the loginAttempts value of the instance the handler loaded
LoadedAttempts(p) == found[p][1].loginAttempts

\* an update that locks one attempt late
FailedLoginUpdateLate(attempts, t) ==
    IF attempts > maxAttempts
    THEN [loginAttempts |-> 0, lockUntil |-> Some(t + lockDuration)]
    ELSE [loginAttempts |-> attempts]

\* an update that stores the count together with the lock
FailedLoginUpdateKeepsCount(attempts, t) ==
    IF attempts >= maxAttempts
    THEN [loginAttempts |-> attempts, lockUntil |-> Some(t + lockDuration)]
    ELSE [loginAttempts |-> attempts]

\* updateData of a failed password check
FailedLoginUpdate(attempts, t) ==
    IF attempts >= maxAttempts
    THEN [loginAttempts |-> 0, lockUntil |-> Some(t + lockDuration)]
    ELSE [loginAttempts |-> attempts]

\* an update that leaves the lock timestamp in place
SuccessfulLoginUpdateKeepsLock(t) ==
    [loginAttempts |-> 0, lastLogin |-> Some(t)]

\* the values written after a successful password check
SuccessfulLoginUpdate(t) ==
    [loginAttempts |-> 0, lockUntil |-> Null, lastLogin |-> Some(t)]

LoginResponse(r, acct, pre, status, code, body) ==
    [op |-> "login", password |-> r.password, acct |-> acct, pre |-> pre,
     status |-> status, code |-> code, body |-> body]

\* a request slot holds the fields of the request its remaining step uses
Idle == [op |-> "", email |-> "", password |-> ""]

\* requests take the free slot of least number (the slots are interchangeable)
FreeSlot(p) == pc[p] = "idle" /\ \A q \in Procs : q < p => pc[q] # "idle"

\* POST /api/v1/auth/login up to the first database result: the login rate
\* limiter, User.findByEmail and the lock check
LoginRequest(p, ip, email, password) ==
    /\ FreeSlot(p)
    /\ LET rl == RateLimitHit(limiter.login, ip, loginWindowMs, loginMax, now)
           r  == [op |-> "login", email |-> "", password |-> password]
           u  == findByEmail(email)
       IN  /\ limiter' = [limiter EXCEPT !.login = rl.store]
           /\ IF rl.limited
              THEN /\ last' = RateLimited
                   /\ UNCHANGED << pc, req, found >>
              ELSE IF u = Null
              THEN /\ last' = LoginResponse(r, 0, Null, 401,
                                            "INVALID_CREDENTIALS", Null)
                   /\ UNCHANGED << pc, req, found >>
              ELSE IF LoginIsLocked(u[1], now)
              THEN /\ last' = LoginResponse(r, u[1].id, u, 423, "ACCOUNT_LOCKED",
                                  [lockTimeRemaining |-> lockTimeRemaining(u[1], now),
                                   lockUntil |-> u[1].lockUntil])
                   /\ UNCHANGED << pc, req, found >>
              ELSE /\ pc' = [pc EXCEPT ![p] = "login_verify"]
                   /\ req' = [req EXCEPT ![p] = r]
                   /\ found' = [found EXCEPT ![p] = u]
                   /\ last' = NoResponse
           /\ history' = IF rl.limited THEN history
                         ELSE [history EXCEPT !.logins = Passed(@, now)]
    /\ UNCHANGED << now, users, wallet, wrongRun, strategyVars >>

\* the rest of the login handler: the password check, the update of the row
\* and the response
LoginVerify(p) ==
    /\ pc[p] = "login_verify"
    /\ LET user == found[p][1]
           id   == user.id
       IN  IF ~comparePassword(user, req[p].password)
           THEN LET attempts == LoadedAttempts(p) + 1
                    upd      == FailedLoginUpdate(attempts, now)
                IN  /\ users' = [users EXCEPT ![id] = UpdateRow(@, upd)]
                    /\ last' = LoginResponse(req[p], id, found[p], 401,
                                   "INVALID_CREDENTIALS",
                                   [attemptsRemaining |-> Max(0, maxAttempts - attempts)])
                    /\ wrongRun' = [wrongRun EXCEPT ![id] =
                                       IF @ > maxAttempts THEN @ ELSE @ + 1]
                    /\ UNCHANGED wallet
           ELSE LET upd    == SuccessfulLoginUpdate(now)
                    tokens == generateTokenPair(UpdateRow(user, upd), now)
                IN  /\ users' = [users EXCEPT ![id] = UpdateRow(@, upd)]
                    /\ last' = LoginResponse(req[p], id, found[p], 200, "",
                                   [user |-> toJSON(UpdateRow(user, upd)),
                                    tokens |-> tokens])
                    /\ wrongRun' = [wrongRun EXCEPT ![id] = 0]
                    /\ wallet' = [wallet EXCEPT ![id] = Some(tokens)]
    /\ pc' = [pc EXCEPT ![p] = "idle"]
    /\ req' = [req EXCEPT ![p] = Idle]
    /\ found' = [found EXCEPT ![p] = Null]
    /\ UNCHANGED << now, limiter, strategyVars, history >>

(* ------------------- authenticate and GET /auth/profile --------------- *)
\* a lock test that never lets a lock end
AuthIsLockedForever(user, t) == user.lockUntil # Null

\* the account-is-locked test of the session middleware
AuthIsLocked(user, t) == user.lockUntil # Null /\ user.lockUntil[1] > t

\* authenticate: the response it sends, or next() with req.user set
authenticate(authHeader) ==
    LET token == extractTokenFromHeader(authHeader)
    IN  IF token = Null
        THEN [next |-> FALSE, status |-> 401, code |-> "NO_TOKEN", id |-> 0, user |-> Null]
        ELSE LET v == verifyAccessToken(token[1], now)
             IN  IF v.error = "Token expired"
                 THEN [next |-> FALSE, status |-> 401, code |-> "TOKEN_EXPIRED",
                       id |-> 0, user |-> Null]
                 ELSE IF v.error = "Invalid token"
                 THEN [next |-> FALSE, status |-> 401, code |-> "INVALID_TOKEN",
                       id |-> 0, user |-> Null]
                 ELSE LET user == findByPk(v.decoded.id)
                      IN  IF user = Null
                          THEN [next |-> FALSE, status |-> 401, code |-> "USER_NOT_FOUND",
                                id |-> v.decoded.id, user |-> Null]
                          ELSE IF AuthIsLocked(user[1], now)
                          THEN [next |-> FALSE, status |-> 423, code |-> "ACCOUNT_LOCKED",
                                id |-> v.decoded.id, user |-> user]
                          ELSE [next |-> TRUE, status |-> 0, code |-> "",
                                id |-> v.decoded.id, user |-> user]

\* the Authorization headers a client can send: none, a token it holds under
\* the Bearer scheme (the access token, or the refresh token in its place),
\* or the access token under another scheme
Headers ==
    {Null} \cup
    UNION {{<< "Bearer", wallet[i][1].accessToken >>,
            << "Bearer", wallet[i][1].refreshToken >>,
            << "Token", wallet[i][1].accessToken >>} :
           i \in {j \in UserIds : wallet[j] # Null}}

\* the headers of clients that send an access token they hold as the route
\* expects it
Bearers == {<< "Bearer", wallet[i][1].accessToken >> :
               i \in {j \in UserIds : wallet[j] # Null}}

\* GET /api/v1/auth/profile: authenticate, then AuthController.getProfile
GetProfile(authHeader) ==
    /\ LET a == authenticate(authHeader)
       IN  last' = IF a.next
                   THEN [op |-> "getProfile", password |-> "", acct |-> a.id,
                         pre |-> a.user, status |-> 200, code |-> "",
                         body |-> [user |-> a.user[1]]]
                   ELSE [op |-> "getProfile", password |-> "", acct |-> a.id,
                         pre |-> a.user, status |-> a.status, code |-> a.code,
                         body |-> Null]
    /\ UNCHANGED << now, users, pc, req, found, limiter, wallet, wrongRun,
                    strategyVars, history >>

(* ------------- PUT /auth/profile and GET /auth/verify-email ----------- *)
\* req.body of PUT /auth/profile: a new first name, last name or profile, and
\* a role and an address, which the handler does not read
ProfileBodies ==
    {[firstName |-> Some("Johnny"), lastName |-> Null, profile |-> Null,
      role |-> Some("admin"), email |-> Some("jane@x.io")],
     [firstName |-> Null, lastName |-> Some("Doe"),
      profile |-> Some([k \in {"bio"} |-> "trader"]),
      role |-> Null, email |-> Null]}

\* an update that takes every field of the body
ProfileUpdateDataWholeBody(user, body) ==
    [f \in {h \in DOMAIN body : body[h] # Null} |-> body[f][1]]

\* updateData of updateProfile: firstName, lastName and the merged profile,
\* each if the body has it
ProfileUpdateData(user, body) ==
    [f \in {h \in {"firstName", "lastName", "profile"} : body[h] # Null} |->
        IF f = "profile"
        THEN [k \in DOMAIN user.profile \cup DOMAIN body.profile[1] |->
                 IF k \in DOMAIN body.profile[1] THEN body.profile[1][k]
                 ELSE user.profile[k]]
        ELSE body[f][1]]

\* PUT /api/v1/auth/profile: authenticate, then AuthController.updateProfile;
\* user.update writes the columns of updateData and no other (the one value
\* computed from the loaded row is the merged profile)
UpdateProfile(authHeader, body) ==
    /\ LET a == authenticate(authHeader)
       IN  IF ~a.next
           THEN /\ last' = [op |-> "updateProfile", password |-> "", acct |-> a.id,
                            pre |-> a.user, status |-> a.status, code |-> a.code,
                            body |-> Null]
                /\ UNCHANGED users
           ELSE LET row == UpdateRow(users[a.id], ProfileUpdateData(a.user[1], body))
                IN  /\ users' = [users EXCEPT ![a.id] = row]
                    /\ last' = [op |-> "updateProfile", password |-> "",
                                acct |-> a.id, pre |-> a.user, status |-> 200,
                                code |-> "", body |-> [user |-> toJSON(row)]]
    /\ UNCHANGED << now, pc, req, found, limiter, wallet, wrongRun, strategyVars,
                    history >>

\* JWTUtil.generateEmailVerificationToken
emailVerificationExpiresIn == 24 * 60 * 60 * 1000
generateEmailVerificationToken(userId, t) ==
    [secret |-> "JWT_SECRET", exp |-> t + emailVerificationExpiresIn,
     payload |-> [id |-> userId, type |-> "email_verification"]]

\* JWTUtil.verifyEmailVerificationToken: signature, expiry and type
verifyEmailVerificationToken(token, t) ==
    IF token.secret # "JWT_SECRET" \/ t >= token.exp
       \/ "type" \notin DOMAIN token.payload
    THEN [error |-> "Invalid or expired verification token"]
    ELSE IF token.payload.type # "email_verification"
    THEN [error |-> "Invalid or expired verification token"]
    ELSE [error |-> "", decoded |-> token.payload]

\* req.params.token: a verification token of an account or of an id that no
\* account has, or an access token a client holds
VerificationTokens ==
    {generateEmailVerificationToken(i, 0) : i \in UserIds \cup {0}} \cup
    {wallet[i][1].accessToken : i \in {j \in UserIds : wallet[j] # Null}}

\* GET /api/v1/auth/verify-email/:token: AuthController.verifyEmail
VerifyEmail(token) ==
    /\ LET v    == verifyEmailVerificationToken(token, now)
           R(acct, status, code) ==
               [op |-> "verifyEmail", password |-> "", acct |-> acct, pre |-> Null,
                status |-> status, code |-> code, body |-> Null]
       IN  IF v.error # ""
           THEN /\ last' = R(0, 400, "INVALID_VERIFICATION_TOKEN")
                /\ UNCHANGED users
           ELSE LET user == findByPk(v.decoded.id)
                IN  IF user = Null
                    THEN /\ last' = R(v.decoded.id, 404, "USER_NOT_FOUND")
                         /\ UNCHANGED users
                    ELSE IF user[1].isEmailVerified
                    THEN /\ last' = R(user[1].id, 200, "")
                         /\ UNCHANGED users
                    ELSE /\ users' = [users EXCEPT ![user[1].id] =
                                         UpdateRow(@, [isEmailVerified |-> TRUE,
                                                       emailVerificationToken |-> Null])]
                         /\ last' = R(user[1].id, 200, "")
    /\ UNCHANGED << now, pc, req, found, limiter, wallet, wrongRun, strategyVars,
                    history >>

(* ------------- POST /auth/refresh and POST /auth/logout --------------- *)
\* a verification that refuses a refresh token that was accepted before
verifyRefreshTokenOnce(token, t) ==
    IF token.secret # "JWT_REFRESH_SECRET" \/ token \in history.refreshed
    THEN [error |-> "Invalid refresh token"]
    ELSE IF t >= token.exp THEN [error |-> "Refresh token expired"]
    ELSE [error |-> "", decoded |-> token.payload]

\* a verification that does not look at the key of the signature
verifyRefreshTokenAnyKey(token, t) ==
    IF t >= token.exp THEN [error |-> "Refresh token expired"]
    ELSE [error |-> "", decoded |-> token.payload]

\* JWTUtil.verifyRefreshToken: the signature is checked before the expiry
verifyRefreshToken(token, t) ==
    IF token.secret # "JWT_REFRESH_SECRET" THEN [error |-> "Invalid refresh token"]
    ELSE IF t >= token.exp THEN [error |-> "Refresh token expired"]
    ELSE [error |-> "", decoded |-> token.payload]

\* error.message.includes('expired'), on the messages verifyRefreshToken throws
includesExpired(message) == message = "Refresh token expired"

\* a token signed with a key that is not one of the server's
Forged ==
    [secret |-> "not-the-server-key", exp |-> 3 * refreshExpiresIn,
     payload |-> [id |-> 1]]

\* the refresh tokens clients hold: the one of the latest pair, and those
\* they have used before
RefreshTokensHeld ==
    {wallet[i][1].refreshToken : i \in {j \in UserIds : wallet[j] # Null}}
    \cup history.refreshed

\* req.body.refreshToken: absent, a refresh token a client holds, an access
\* token in its place, or a forged token
RefreshBodies ==
    {Null} \cup {Some(t) : t \in RefreshTokensHeld} \cup {Some(Forged)} \cup
    {Some(wallet[i][1].accessToken) : i \in {j \in UserIds : wallet[j] # Null}}

\* a response of the refresh handler, with the token its request carried
RefreshResponse(token, acct, pre, status, code, body) ==
    [op |-> "refreshToken", password |-> "", token |-> token, acct |-> acct,
     pre |-> pre, status |-> status, code |-> code, body |-> body]

\* POST /api/v1/auth/refresh: AuthController.refreshToken
RefreshToken(refreshToken) ==
    /\ IF refreshToken = Null
       THEN /\ last' = RefreshResponse(Null, 0, Null, 401,
                                       "REFRESH_TOKEN_REQUIRED", Null)
            /\ UNCHANGED << wallet, history >>
       ELSE LET v == verifyRefreshToken(refreshToken[1], now)
            IN  IF v.error # ""
                THEN /\ last' = RefreshResponse(refreshToken, 0, Null, 401,
                                     IF includesExpired(v.error)
                                     THEN "REFRESH_TOKEN_EXPIRED"
                                     ELSE "INVALID_REFRESH_TOKEN", Null)
                     /\ UNCHANGED << wallet, history >>
                ELSE LET user == findByPk(v.decoded.id)
                     IN  IF user = Null
                         THEN /\ last' = RefreshResponse(refreshToken, v.decoded.id,
                                              Null, 401, "USER_NOT_FOUND", Null)
                              /\ UNCHANGED << wallet, history >>
                         ELSE LET tokens == generateTokenPair(user[1], now)
                              IN  /\ last' = RefreshResponse(refreshToken,
                                                 user[1].id, user, 200, "",
                                                 [tokens |-> tokens])
                                  /\ wallet' = [wallet EXCEPT ![user[1].id] =
                                                   Some(tokens)]
                                  /\ history' = [history EXCEPT !.refreshed =
                                                    @ \cup {refreshToken[1]}]
    /\ UNCHANGED << now, users, pc, req, found, limiter, wrongRun, strategyVars >>

\* optionalAuth: req.user, which is null when no token verifies
optionalAuth(authHeader) ==
    LET token == extractTokenFromHeader(authHeader)
    IN  IF token = Null THEN Null
        ELSE LET v == verifyAccessToken(token[1], now)
             IN  IF v.error # "" THEN Null ELSE findByPk(v.decoded.id)

\* the headers of the requests followed where tokens age: those of Headers,
\* and a forged token under the Bearer scheme
AnyHeaders == Headers \cup {<< "Bearer", Forged >>}

\* POST /api/v1/auth/logout: optionalAuth, then AuthController.logout (which
\* writes a log line); the history notes which accepted refresh tokens
\* belong to the account that logged out
Logout(authHeader) ==
    /\ LET user == optionalAuth(authHeader)
           id   == IF user = Null THEN 0 ELSE user[1].id
       IN  /\ last' = [op |-> "logout", password |-> "", acct |-> id,
                       pre |-> user, status |-> 200, code |-> "", body |-> Null]
           /\ history' = [history EXCEPT !.loggedOut =
                             @ \cup {t \in history.refreshed : t.payload.id = id}]
    /\ UNCHANGED << now, users, pc, req, found, limiter, wallet, wrongRun,
                    strategyVars >>

(* ---------------------------- password reset ------------------------- *)
\* crypto.createHash('sha256').update(token).digest('hex')
sha256(token) == << "sha256", token >>

\* crypto.randomBytes(32).toString('hex'): a value no earlier call returned
randomBytes == << "random", Cardinality(history.issued) + 1 >>

\* a token that expires an hour after its issue
generatePasswordResetTokenLongLived(token, t) ==
    [passwordResetToken |-> Some(sha256(token)),
     passwordResetExpires |-> Some(t + 60 * 60 * 1000)]

\* user.generatePasswordResetToken: the columns it sets for a token
generatePasswordResetToken(token, t) ==
    [passwordResetToken |-> Some(sha256(token)),
     passwordResetExpires |-> Some(t + resetTokenLifetime)]

\* a lookup that does not look at the expiry
findByResetTokenAnyTime(token, t) ==
    LET m == {i \in DOMAIN users :
                 users[i].passwordResetToken = Some(sha256(token))}
    IN  IF m = {} THEN Null ELSE Some(users[CHOOSE i \in m : TRUE])

\* User.findByResetToken: the row that stores the hash of the token and an
\* expiry after now
findByResetToken(token, t) ==
    LET m == {i \in DOMAIN users :
                 /\ users[i].passwordResetToken = Some(sha256(token))
                 /\ users[i].passwordResetExpires # Null
                 /\ users[i].passwordResetExpires[1] > t}
    IN  IF m = {} THEN Null ELSE Some(users[CHOOSE i \in m : TRUE])

\* user.updatePassword: the columns it writes
updatePassword(newPassword) ==
    [password |-> bcryptHash(newPassword), passwordResetToken |-> Null,
     passwordResetExpires |-> Null]

ResetResponse(op, token, acct, pre, status, code, body) ==
    [op |-> op, password |-> "", token |-> token, acct |-> acct, pre |-> pre,
     status |-> status, code |-> code, body |-> body]

\* POST /api/v1/auth/password/reset-request: the reset-request rate limiter
\* and AuthController.requestPasswordReset; the history notes the token,
\* its account and the time of its issue
RequestPasswordReset(ip, email) ==
    /\ LET op   == "requestPasswordReset"
           rl   == RateLimitHit(limiter.reset, ip, resetWindowMs, resetMax, now)
           user == findByEmail(email)
           resetToken == randomBytes
       IN  /\ limiter' = [limiter EXCEPT !.reset = rl.store]
           /\ IF rl.limited
              THEN /\ last' = RateLimited
                   /\ UNCHANGED << users, history >>
              ELSE IF user = Null
              THEN /\ last' = ResetResponse(op, Null, 0, Null, 200, "", Null)
                   /\ UNCHANGED << users, history >>
              ELSE /\ users' = [users EXCEPT ![user[1].id] =
                                   UpdateRow(@, generatePasswordResetToken(
                                                    resetToken, now))]
                   /\ history' = [history EXCEPT !.issued = @ \cup
                                     {[token |-> resetToken, acct |-> user[1].id,
                                       at |-> now]}]
                   /\ last' = ResetResponse(op, Null, user[1].id, user, 200, "",
                                            [resetToken |-> resetToken])
    /\ UNCHANGED << now, pc, req, found, wallet, wrongRun, strategyVars >>

\* the tokens a caller can send to POST /auth/password/reset: those that
\* were issued, and one that never was
ResetTokens == {i.token : i \in history.issued} \cup {<< "random", 0 >>}
NewPasswords == {"NewPass456!@#", "Other789!@#"}

\* POST /api/v1/auth/password/reset up to the database result: the lookup
\* User.findByResetToken
ResetPasswordRequest(p, token, password) ==
    /\ FreeSlot(p)
    /\ LET user == findByResetToken(token, now)
       IN  IF user = Null
           THEN /\ last' = ResetResponse("resetPassword", Some(token), 0, Null,
                                         400, "INVALID_RESET_TOKEN", Null)
                /\ UNCHANGED << pc, req, found >>
           ELSE /\ pc' = [pc EXCEPT ![p] = "reset_update"]
                /\ req' = [req EXCEPT ![p] =
                              [op |-> "resetPassword", email |-> "",
                               password |-> password, token |-> token]]
                /\ found' = [found EXCEPT ![p] = user]
                /\ last' = NoResponse
    /\ UNCHANGED << now, users, limiter, wallet, wrongRun, strategyVars, history >>

\* the rest of the reset handler: user.updatePassword and the response
ResetPasswordUpdate(p) ==
    /\ pc[p] = "reset_update"
    /\ LET id == found[p][1].id
       IN  /\ users' = [users EXCEPT ![id] =
                           UpdateRow(@, updatePassword(req[p].password))]
           /\ last' = ResetResponse("resetPassword", Some(req[p].token), id,
                                    found[p], 200, "", Null)
    /\ history' = [history EXCEPT !.reset = @ \cup {req[p].token}]
    /\ pc' = [pc EXCEPT ![p] = "idle"]
    /\ req' = [req EXCEPT ![p] = Idle]
    /\ found' = [found EXCEPT ![p] = Null]
    /\ UNCHANGED << now, limiter, wallet, wrongRun, strategyVars >>

(* ------------------------ AuthController.register --------------------- *)
\* the bodies of POST /auth/register: the address, the password, and a role
\* field or none
RegisterBodies ==
    [email : Emails, password : Passwords, role : {Null, Some("admin")}]

\* a response of the register handler, with the address and the role field
\* the body of its request carried
RegisterResponse(r, acct, pre, status, code, body) ==
    [op |-> "register", password |-> "", email |-> r.email, role |-> r.role,
     acct |-> acct, pre |-> pre, status |-> status, code |-> code, body |-> body]

\* a handler that hands the whole body to createUser
RegisterUserDataWholeBody(body) == body

\* const { firstName, lastName, email, password } = req.body: the fields of
\* the body the handler hands to createUser (a role is not among them)
RegisterUserData(body) ==
    [email |-> body.email, password |-> body.password, role |-> Null]

\* POST /api/v1/auth/register up to the first database result: the register
\* rate limiter and the User.findByEmail check
RegisterRequest(p, ip, body) ==
    /\ FreeSlot(p)
    /\ LET rl == RateLimitHit(limiter.register, ip, registerWindowMs, registerMax, now)
           userData == RegisterUserData(body)
           existingUser == findByEmail(userData.email)
       IN  /\ limiter' = [limiter EXCEPT !.register = rl.store]
           /\ IF rl.limited
              THEN /\ last' = RateLimited
                   /\ UNCHANGED << pc, req, found >>
              ELSE IF existingUser # Null
              THEN /\ last' = RegisterResponse(body, existingUser[1].id,
                                               existingUser, 409, "USER_EXISTS", Null)
                   /\ UNCHANGED << pc, req, found >>
              ELSE /\ pc' = [pc EXCEPT ![p] = "register_create"]
                   /\ req' = [req EXCEPT ![p] =
                                 [op |-> "register", email |-> "", password |-> "",
                                  body |-> body]]
                   /\ last' = NoResponse
                   /\ UNCHANGED found
    /\ UNCHANGED << now, users, wallet, wrongRun, strategyVars, history >>

\* the rest of the register handler: User.createUser, whose INSERT the
\* unique_email constraint refuses when the lower-cased address is taken by
\* then, the token pair and the response
RegisterCreate(p) ==
    /\ pc[p] = "register_create"
    /\ LET id   == Cardinality(DOMAIN users) + 1
           user == createUser(id, RegisterUserData(req[p].body))
       IN  IF \E i \in DOMAIN users : users[i].email = user.email
           THEN /\ last' = RegisterResponse(req[p].body, 0, Null, 409,
                                            "EMAIL_EXISTS", Null)
                /\ UNCHANGED << users, wallet >>
           ELSE LET tokens == generateTokenPair(user, now)
                IN  /\ users' = [i \in DOMAIN users \cup {id} |->
                                   IF i = id THEN user ELSE users[i]]
                    /\ wallet' = [wallet EXCEPT ![id] = Some(tokens)]
                    /\ last' = RegisterResponse(req[p].body, id, Null, 201, "",
                                   [user |-> toJSON(user), tokens |-> tokens])
    /\ pc' = [pc EXCEPT ![p] = "idle"]
    /\ req' = [req EXCEPT ![p] = Idle]
    /\ UNCHANGED << now, found, limiter, wrongRun, strategyVars, history >>

(* ------------------------------ authorize ----------------------------- *)
requireUser == {"user", "admin"}
\* an admin gate that lets every role through
requireAdminOrUser == {"user", "admin"}
requireAdmin == {"admin"}

\* authenticate followed by authorize(...roles): the response one of them
\* sends, or the account the handler runs for
Gate(authHeader, roles) ==
    LET a == authenticate(authHeader)
    IN  IF ~a.next
        THEN [ok |-> FALSE, status |-> a.status, code |-> a.code, user |-> Null]
        ELSE IF a.user[1].role \notin roles
        THEN [ok |-> FALSE, status |-> 403, code |-> "INSUFFICIENT_PERMISSIONS",
              user |-> a.user]
        ELSE [ok |-> TRUE, status |-> 0, code |-> "", user |-> a.user]

(* ------------------------- TradingStrategy model ---------------------- *)
StrategyIds == 1..MaxStrategies
Statuses == {"draft", "pending", "approved", "rejected"}


\* a lookup that finds deleted rows too
findStrategyByPkUnscoped(id) ==
    IF id \in DOMAIN strategies THEN Some(strategies[id]) ELSE Null

\* TradingStrategy.findByPk: the model is paranoid, a deleted row is not found
findStrategyByPk(id) ==
    IF id \in DOMAIN strategies /\ strategies[id].deletedAt = Null
    THEN Some(strategies[id]) ELSE Null

\* the ids of a set of rows, newest first (ids are given in order of creation)
RECURSIVE NewestFirst(_)
NewestFirst(ids) ==
    IF ids = {} THEN << >>
    ELSE LET m == CHOOSE i \in ids : \A j \in ids : j <= i
         IN  << m >> \o NewestFirst(ids \ {m})

\* req.query of GET /strategies/my and JSON.stringify of it
Queries == {[status |-> Null]}
JSONstringify(q) ==
    IF q.status = Null THEN "{}" ELSE "{\"status\":\"" \o q.status[1] \o "\"}"

\* findAndCountAll of getUserStrategies over a table: the caller's rows, the
\* deleted ones included, filtered by the status of the query
UserStrategiesData(table, userId, q) ==
    LET ids == {i \in DOMAIN table :
                   /\ table[i].createdBy = userId
                   /\ q.status # Null => table[i].status = q.status[1]}
        seq == NewestFirst(ids)
    IN  [strategies |-> [n \in 1..Len(seq) |-> table[seq[n]]],
         totalItems |-> Cardinality(ids)]

\* TradingStrategy.getTopPerforming over a table
TopPerforming(table) ==
    LET ids == {i \in DOMAIN table :
                   /\ table[i].deletedAt = Null
                   /\ table[i].isPublic
                   /\ table[i].status = "approved"}
        seq == NewestFirst(ids)
    IN  [n \in 1..Len(seq) |-> table[seq[n]]]

(* ------------------------------ RedisClient --------------------------- *)
userStrategiesTTL == 300 * 1000
topStrategiesTTL == 600 * 1000

\* the keys the handlers read and write
UserStrategiesKey(userId, q) ==
    "user:" \o ToString(userId) \o ":strategies:" \o JSONstringify(q)
TopKey(limit) == "strategies:top:" \o limit

\* The calls of the Redis client that fail while a request is handled: the
\* client is disconnected (all of them) or a command throws.
CacheFaults == SUBSET {"get", "set", "del"}
NoFault == {}

\* an exception that reaches the handler
Thrown == << [error |-> "Error"] >>

\* a get that lets the error of the command through
redisGetUnguarded(key, f) ==
    IF "get" \in f THEN Thrown
    ELSE IF key \in DOMAIN cache /\ now < cache[key].expires
    THEN Some(cache[key]) ELSE Null

\* redisClient.get: the value of a key that is set and has not expired;
\* null when the client is not connected or the command throws
redisGet(key, f) ==
    IF "get" \in f THEN Null
    ELSE IF key \in DOMAIN cache /\ now < cache[key].expires
    THEN Some(cache[key]) ELSE Null

\* redisClient.set (SETEX); nothing is stored when it fails
redisSet(c, key, entry, f) ==
    IF "set" \in f THEN c
    ELSE [k \in DOMAIN c \cup {key} |-> IF k = key THEN entry ELSE c[k]]

\* redisClient.del: deletes the key of exactly that name, unless it fails
redisDel(c, key, f) ==
    IF "del" \in f THEN c ELSE [k \in DOMAIN c \ {key} |-> c[k]]

\* redisClient.invalidateUserCache
invalidateUserCache(c, userId, f) ==
    redisDel(redisDel(c, "user:" \o ToString(userId) \o ":strategies", f),
             "user:" \o ToString(userId) \o ":profile", f)

\* redisClient.invalidatePublicStrategiesCache
invalidatePublicStrategiesCache(c, f) == redisDel(c, "strategies:public", f)

\* Redis drops a key when its time to live has run out
Expire(c, t) == [k \in {j \in DOMAIN c : t < c[j].expires} |-> c[k]]

\* An entry records the request it answers and, as history, whether a
\* successful create, update, delete or status change has since changed the
\* result of that request (stale).
CacheEntry(route, userId, q, data, ttl) ==
    [route |-> route, user |-> userId, query |-> q, data |-> data,
     expires |-> now + ttl, stale |-> FALSE]

FreshData(e, table) ==
    IF e.route = "my" THEN UserStrategiesData(table, e.user, e.query)
    ELSE TopPerforming(table)

\* the history flag, after a write that leaves the table as given
MarkStale(c, table) ==
    [k \in DOMAIN c |->
        IF c[k].data # FreshData(c[k], table)
        THEN [c[k] EXCEPT !.stale = TRUE] ELSE c[k]]

\* the cache after the invalidation the write handlers run for userId
AfterWrite(userId, table, f) ==
    MarkStale(invalidatePublicStrategiesCache(
                  invalidateUserCache(cache, userId, f), f),
              table)

(* --------------------------- StrategyController ----------------------- *)
\* request bodies.  POST /strategies: the strategies of the model carry
\* performance metrics that score at least 70.  PUT /strategies/:id: a new
\* name, a status field, both or neither.  PUT /strategies/:id/status: a
\* status and a rejection reason.
CreateBodies == [name : {"A"}, isPublic : {TRUE}]

\* the string s written n times
RECURSIVE Times(_, _)
Times(s, n) == IF n = 0 THEN "" ELSE s \o Times(s, n - 1)

\* a rejection reason of more than 500 characters
LongReason == Times("no stop loss rule ", 30)
UpdateBodies ==
    {[name |-> Null, status |-> Null], [name |-> Some("B"), status |-> Null]} \cup
    {[name |-> Null, status |-> Some(s)] : s \in Statuses \cup {"archived"}}
StatusBodies ==
    {[status |-> "approved", rejectionReason |-> Null],
     [status |-> "pending", rejectionReason |-> Null],
     [status |-> "rejected", rejectionReason |-> Null],
     [status |-> "rejected", rejectionReason |-> Some("too risky")],
     [status |-> "rejected", rejectionReason |-> Some(LongReason)],
     [status |-> "rejected", rejectionReason |-> Some("no stop loss rule")]}
\* the edits and decisions followed where cached lists are read
EditBodies == {[name |-> Some("B"), status |-> Null]}
DecisionBodies ==
    {[status |-> "approved", rejectionReason |-> Null],
     [status |-> "rejected", rejectionReason |-> Some("no stop loss rule")]}

StrategyResponse(op, acct, pre, status, code, body) ==
    [op |-> op, password |-> "", acct |-> acct, pre |-> pre,
     status |-> status, code |-> code, body |-> body]

\* the response of authenticate or authorize
Refused(op, g) ==
    StrategyResponse(op, IF g.user = Null THEN 0 ELSE g.user[1].id, Null,
                     g.status, g.code, Null)

\* POST /strategies: authenticate, requireUser, createStrategy
CreateStrategy(authHeader, body, f) ==
    /\ Cardinality(DOMAIN strategies) < MaxStrategies
    /\ LET g == Gate(authHeader, requireUser)
       IN  IF ~g.ok
           THEN /\ last' = Refused("createStrategy", g)
                /\ UNCHANGED strategyVars
           ELSE LET userId   == g.user[1].id
                    id       == Cardinality(DOMAIN strategies) + 1
                    strategy == [id |-> id, name |-> body.name,
                                 isPublic |-> body.isPublic, createdBy |-> userId,
                                 status |-> "draft", approvedBy |-> Null,
                                 approvedAt |-> Null, rejectionReason |-> Null,
                                 deletedAt |-> Null]
                    table    == [i \in DOMAIN strategies \cup {id} |->
                                    IF i = id THEN strategy ELSE strategies[i]]
                IN  /\ strategies' = table
                    /\ cache' = AfterWrite(userId, table, f)
                    /\ last' = StrategyResponse("createStrategy", userId, Null, 201,
                                                "", [strategy |-> strategy])
    /\ UNCHANGED << now, users, pc, req, found, limiter, wallet, wrongRun, history >>

\* updateData of updateStrategy: the fields of the body, and the reset to
\* draft of an approved strategy that somebody other than an admin edits
StrategyUpdateData(strategy, body, userRole) ==
    LET given == [f \in {h \in DOMAIN body : body[h] # Null} |-> body[f][1]]
    IN  IF strategy.status = "approved" /\ userRole # "admin"
        THEN [f \in DOMAIN given \cup {"status", "approvedBy", "approvedAt"} |->
                 IF f = "status" THEN "draft"
                 ELSE IF f \in {"approvedBy", "approvedAt"} THEN Null
                 ELSE given[f]]
        ELSE given

\* the isIn validation of the status column
StatusIsValid(updateData) ==
    "status" \in DOMAIN updateData => updateData.status \in Statuses

\* PUT /strategies/:id: authenticate, requireUser, updateStrategy
UpdateStrategy(authHeader, id, body, f) ==
    /\ LET op == "updateStrategy"
           g  == Gate(authHeader, requireUser)
           strategy == findStrategyByPk(id)
       IN  IF ~g.ok
           THEN /\ last' = Refused(op, g)
                /\ UNCHANGED strategyVars
           ELSE IF strategy = Null
           THEN /\ last' = StrategyResponse(op, g.user[1].id, Null, 404,
                                            "STRATEGY_NOT_FOUND", Null)
                /\ UNCHANGED strategyVars
           ELSE IF strategy[1].createdBy # g.user[1].id /\ g.user[1].role # "admin"
           THEN /\ last' = StrategyResponse(op, g.user[1].id, Null, 403,
                                            "UPDATE_ACCESS_DENIED", Null)
                /\ UNCHANGED strategyVars
           ELSE LET updateData == StrategyUpdateData(strategy[1], body, g.user[1].role)
                    row        == UpdateRow(strategy[1], updateData)
                    table      == [strategies EXCEPT ![id] = row]
                IN  IF ~StatusIsValid(updateData)
                    THEN /\ last' = StrategyResponse(op, g.user[1].id, Null, 400,
                                                     "VALIDATION_ERROR", Null)
                         /\ UNCHANGED strategyVars
                    ELSE /\ strategies' = table
                         /\ cache' = AfterWrite(g.user[1].id, table, f)
                         /\ last' = StrategyResponse(op, g.user[1].id, Null, 200,
                                                     "", [strategy |-> row])
    /\ UNCHANGED << now, users, pc, req, found, limiter, wallet, wrongRun, history >>

\* DELETE /strategies/:id: authenticate, requireUser, deleteStrategy
DeleteStrategy(authHeader, id, f) ==
    /\ LET op == "deleteStrategy"
           g  == Gate(authHeader, requireUser)
           strategy == findStrategyByPk(id)
       IN  IF ~g.ok
           THEN /\ last' = Refused(op, g)
                /\ UNCHANGED strategyVars
           ELSE IF strategy = Null
           THEN /\ last' = StrategyResponse(op, g.user[1].id, Null, 404,
                                            "STRATEGY_NOT_FOUND", Null)
                /\ UNCHANGED strategyVars
           ELSE IF strategy[1].createdBy # g.user[1].id /\ g.user[1].role # "admin"
           THEN /\ last' = StrategyResponse(op, g.user[1].id, Null, 403,
                                            "DELETE_ACCESS_DENIED", Null)
                /\ UNCHANGED strategyVars
           ELSE LET table == [strategies EXCEPT ![id].deletedAt = Some(now)]
                IN  /\ strategies' = table
                    /\ cache' = AfterWrite(g.user[1].id, table, f)
                    /\ last' = StrategyResponse(op, g.user[1].id, Null, 200,
                                                "", Null)
    /\ UNCHANGED << now, users, pc, req, found, limiter, wallet, wrongRun, history >>

\* a submission that leaves the rejection reason in place
SubmitUpdateKeepsReason == [status |-> "pending"]

\* the values submitForApproval writes
SubmitUpdate == [status |-> "pending", rejectionReason |-> Null]

\* POST /strategies/:id/submit: authenticate, requireUser, submitForApproval
\* (the handler leaves the cache alone)
SubmitForApproval(authHeader, id) ==
    /\ LET op == "submitForApproval"
           g  == Gate(authHeader, requireUser)
           strategy == findStrategyByPk(id)
       IN  IF ~g.ok
           THEN /\ last' = Refused(op, g)
                /\ UNCHANGED strategies
           ELSE IF strategy = Null
           THEN /\ last' = StrategyResponse(op, g.user[1].id, Null, 404,
                                            "STRATEGY_NOT_FOUND", Null)
                /\ UNCHANGED strategies
           ELSE IF strategy[1].createdBy # g.user[1].id
           THEN /\ last' = StrategyResponse(op, g.user[1].id, Null, 403,
                                            "SUBMIT_ACCESS_DENIED", Null)
                /\ UNCHANGED strategies
           ELSE IF strategy[1].status # "draft"
           THEN /\ last' = StrategyResponse(op, g.user[1].id, Null, 400,
                                            "INVALID_STATUS_TRANSITION", Null)
                /\ UNCHANGED strategies
           ELSE LET row == UpdateRow(strategy[1], SubmitUpdate)
                IN  /\ strategies' = [strategies EXCEPT ![id] = row]
                    /\ last' = StrategyResponse(op, g.user[1].id, Null, 200,
                                                "", [strategy |-> row])
    /\ UNCHANGED << now, users, pc, req, found, limiter, wallet, wrongRun, cache, history >>

\* a validation that asks for a reason of any length
StatusBodyIsValidAnyLength(body) ==
    /\ body.status \in {"approved", "rejected"}
    /\ body.status = "rejected" => body.rejectionReason # Null

\* validateStrategyStatusUpdate: the status is approved or rejected, and a
\* rejection carries a reason of 10 to 500 characters
StatusBodyIsValid(body) ==
    /\ body.status \in {"approved", "rejected"}
    /\ body.status = "rejected" =>
          /\ body.rejectionReason # Null
          /\ Len(body.rejectionReason[1]) >= 10
          /\ Len(body.rejectionReason[1]) <= 500

\* updateData of updateStrategyStatus
StatusUpdateData(body, adminId) ==
    IF body.status = "approved"
    THEN [status |-> body.status, approvedBy |-> Some(adminId),
          approvedAt |-> Some(now), rejectionReason |-> Null]
    ELSE [status |-> body.status, rejectionReason |-> body.rejectionReason,
          approvedBy |-> Null, approvedAt |-> Null]

\* PUT /strategies/:id/status: authenticate, requireAdmin,
\* validateStrategyStatusUpdate, updateStrategyStatus
UpdateStrategyStatus(authHeader, id, body, f) ==
    /\ LET op == "updateStrategyStatus"
           g  == Gate(authHeader, requireAdmin)
           strategy == findStrategyByPk(id)
       IN  IF ~g.ok
           THEN /\ last' = Refused(op, g)
                /\ UNCHANGED strategyVars
           ELSE IF ~StatusBodyIsValid(body)
           THEN /\ last' = StrategyResponse(op, g.user[1].id, Null, 400,
                                            "VALIDATION_ERROR", Null)
                /\ UNCHANGED strategyVars
           ELSE IF strategy = Null
           THEN /\ last' = StrategyResponse(op, g.user[1].id, Null, 404,
                                            "STRATEGY_NOT_FOUND", Null)
                /\ UNCHANGED strategyVars
           ELSE LET row   == UpdateRow(strategy[1],
                                       StatusUpdateData(body, g.user[1].id))
                    table == [strategies EXCEPT ![id] = row]
                IN  /\ strategies' = table
                    /\ cache' = AfterWrite(strategy[1].createdBy, table, f)
                    /\ last' = StrategyResponse(op, g.user[1].id, Null, 200,
                                                "", [strategy |-> row])
    /\ UNCHANGED << now, users, pc, req, found, limiter, wallet, wrongRun, history >>

\* GET /strategies/pending: authenticate, requireAdmin, getPendingStrategies
\* (findAndCountAll of the pending rows, newest first)
GetPendingStrategies(authHeader) ==
    /\ LET op  == "getPendingStrategies"
           g   == Gate(authHeader, requireAdmin)
           ids == {i \in DOMAIN strategies :
                      /\ strategies[i].deletedAt = Null
                      /\ strategies[i].status = "pending"}
           seq == NewestFirst(ids)
       IN  last' = IF ~g.ok THEN Refused(op, g)
                   ELSE StrategyResponse(op, g.user[1].id, Null, 200, "",
                            [strategies |-> [n \in 1..Len(seq) |->
                                                strategies[seq[n]]],
                             totalItems |-> Cardinality(ids)])
    /\ UNCHANGED << now, users, pc, req, found, limiter, wallet, wrongRun,
                    strategyVars, history >>

\* GET /strategies/my: authenticate, requireUser, getUserStrategies
GetUserStrategies(authHeader, q, f) ==
    /\ LET op == "getUserStrategies"
           g  == Gate(authHeader, requireUser)
       IN  IF ~g.ok
           THEN /\ last' = Refused(op, g)
                /\ UNCHANGED cache
           ELSE LET userId     == g.user[1].id
                    cacheKey   == UserStrategiesKey(userId, q)
                    cachedData == redisGet(cacheKey, f)
                    data       == UserStrategiesData(strategies, userId, q)
                IN  IF cachedData = Thrown
                    THEN /\ last' = StrategyResponse(op, userId, Null, 500,
                                        "GET_USER_STRATEGIES_FAILED", Null)
                         /\ UNCHANGED cache
                    ELSE IF cachedData # Null
                    THEN /\ last' = StrategyResponse(op, userId, cachedData, 200, "",
                                        [data |-> cachedData[1].data, cached |-> TRUE])
                         /\ UNCHANGED cache
                    ELSE /\ cache' = redisSet(cache, cacheKey,
                                        CacheEntry("my", userId, q, data,
                                                   userStrategiesTTL), f)
                         /\ last' = StrategyResponse(op, userId, Null, 200, "",
                                        [data |-> data, cached |-> FALSE])
    /\ UNCHANGED << now, users, pc, req, found, limiter, wallet, wrongRun,
                    strategies, history >>

\* GET /strategies/top (no authentication), with the default limit
GetTopStrategies(f) ==
    /\ LET op == "getTopStrategies"
           cacheKey   == TopKey("10")
           cachedData == redisGet(cacheKey, f)
           data       == TopPerforming(strategies)
       IN  IF cachedData = Thrown
           THEN /\ last' = StrategyResponse(op, 0, Null, 500,
                               "GET_TOP_STRATEGIES_FAILED", Null)
                /\ UNCHANGED cache
           ELSE IF cachedData # Null
           THEN /\ last' = StrategyResponse(op, 0, cachedData, 200, "",
                               [data |-> [strategies |-> cachedData[1].data],
                                cached |-> TRUE])
                /\ UNCHANGED cache
           ELSE /\ cache' = redisSet(cache, cacheKey,
                               CacheEntry("top", 0, [status |-> Null], data,
                                          topStrategiesTTL), f)
                /\ last' = StrategyResponse(op, 0, Null, 200, "",
                               [data |-> [strategies |-> data], cached |-> FALSE])
    /\ UNCHANGED << now, users, pc, req, found, limiter, wallet, wrongRun,
                    strategies, history >>

\* req.user in getStrategyById: the route GET /strategies/:id runs
\* validateUUID and the handler, and no middleware that reads the
\* Authorization header, so that req.user is undefined for every caller
GetByIdUser(authHeader) == Null

\* GET /strategies/:id: validateUUID, getStrategyById
GetStrategyById(authHeader, id) ==
    /\ LET op       == "getStrategyById"
           user     == GetByIdUser(authHeader)
           userId   == IF user = Null THEN 0 ELSE user[1].id
           strategy == findStrategyByPk(id)
       IN  last' =
             IF strategy = Null
             THEN StrategyResponse(op, userId, Null, 404, "STRATEGY_NOT_FOUND", Null)
             ELSE LET canAccess ==
                          \/ strategy[1].isPublic /\ strategy[1].status = "approved"
                          \/ user # Null /\ strategy[1].createdBy = user[1].id
                          \/ user # Null /\ user[1].role = "admin"
                  IN  IF ~canAccess
                      THEN StrategyResponse(op, userId, Null, 403,
                                            "STRATEGY_ACCESS_DENIED", Null)
                      ELSE StrategyResponse(op, userId, Null, 200, "",
                                            [strategy |-> strategy[1]])
    /\ UNCHANGED << now, users, pc, req, found, limiter, wallet, wrongRun,
                    strategyVars, history >>

(* -------------------------------- the clock --------------------------- *)
\* time passes, for limit steps; keys whose time to live ran out are gone
Advance(limit) ==
    /\ now < limit * Tick
    /\ now' = now + Tick
    /\ cache' = Expire(cache, now + Tick)
    /\ last' = NoResponse
    /\ UNCHANGED << users, pc, req, found, limiter, wallet, wrongRun, strategies, history >>

\* half the lifetime of a refresh token passes, for limit steps
LongTick == refreshExpiresIn \div 2

Later(limit) ==
    /\ now < limit * LongTick
    /\ now' = now + LongTick
    /\ cache' = Expire(cache, now + LongTick)
    /\ last' = NoResponse
    /\ UNCHANGED << users, pc, req, found, limiter, wallet, wrongRun, strategies,
                    history >>

\* five minutes pass, for limit steps
ShortTick == 5 * 60 * 1000

Soon(limit) ==
    /\ now < limit * ShortTick
    /\ now' = now + ShortTick
    /\ cache' = Expire(cache, now + ShortTick)
    /\ last' = NoResponse
    /\ UNCHANGED << users, pc, req, found, limiter, wallet, wrongRun, strategies,
                    history >>

(* ------------------------------ behaviours ---------------------------- *)
\* the database holds one registered account, nothing is in flight
Init ==
    /\ now = 0
    /\ users = (1 :> NewUserRow(1, "john@x.io", "Test123!@#"))
    /\ pc = [p \in Procs |-> "idle"]
    /\ req = [p \in Procs |-> Idle]
    /\ found = [p \in Procs |-> Null]
    /\ limiter = [r \in {"login", "register", "reset"} |->
                    [ip \in IPs |-> [hits |-> 0, resetTime |-> 0]]]
    /\ wallet = [i \in UserIds |-> Null]
    /\ last = NoResponse
    /\ wrongRun = [i \in UserIds |-> 0]
    /\ strategies = NoRows
    /\ cache = NoRows
    /\ history = NoHistory

\* logins that race: two requests can be in flight
Next ==
    \/ \E p \in Procs, ip \in IPs, e \in Emails, pw \in Passwords :
          LoginRequest(p, ip, e, pw)
    \/ \E p \in Procs : LoginVerify(p)
    \/ Advance(MaxTicks)

Spec == Init /\ [][Next]_vars

\* the session of one client: its requests follow one another
NextSession ==
    \/ \E ip \in IPs, e \in Emails, pw \in Passwords : LoginRequest(1, ip, e, pw)
    \/ LoginVerify(1)
    \/ \E h \in Headers : GetProfile(h)
    \/ Advance(SessionTicks)

SpecSession == Init /\ [][NextSession]_vars

\* registrations that race
NextRegister ==
    \/ \E p \in Procs, ip \in IPs, b \in RegisterBodies : RegisterRequest(p, ip, b)
    \/ \E p \in Procs : RegisterCreate(p)
    \/ Advance(MaxTicks)

SpecRegister == Init /\ [][NextRegister]_vars

\* registrations that race for the first accounts of an empty database
InitEmpty ==
    /\ now = 0
    /\ users = NoRows
    /\ pc = [p \in Procs |-> "idle"]
    /\ req = [p \in Procs |-> Idle]
    /\ found = [p \in Procs |-> Null]
    /\ limiter = [r \in {"login", "register", "reset"} |->
                    [ip \in IPs |-> [hits |-> 0, resetTime |-> 0]]]
    /\ wallet = [i \in UserIds |-> Null]
    /\ last = NoResponse
    /\ wrongRun = [i \in UserIds |-> 0]
    /\ strategies = NoRows
    /\ cache = NoRows
    /\ history = NoHistory

SpecFirstAccounts == InitEmpty /\ [][NextRegister]_vars

\* tokens that age: the client of an account holds the token pair of a login
\* at time 0, and so does the client of an account whose row has since been
\* removed from the table
InitTokens ==
    /\ now = 0
    /\ users = (1 :> NewUserRow(1, "john@x.io", "Test123!@#"))
    /\ pc = [p \in Procs |-> "idle"]
    /\ req = [p \in Procs |-> Idle]
    /\ found = [p \in Procs |-> Null]
    /\ limiter = [r \in {"login", "register", "reset"} |->
                    [ip \in IPs |-> [hits |-> 0, resetTime |-> 0]]]
    /\ wallet = [i \in UserIds |->
                   Some(generateTokenPair(NewUserRow(i, IF i = 1 THEN "john@x.io"
                                                        ELSE "jane@x.io",
                                                     "Test123!@#"), 0))]
    /\ last = NoResponse
    /\ wrongRun = [i \in UserIds |-> 0]
    /\ strategies = NoRows
    /\ cache = NoRows
    /\ history = NoHistory

NextTokens ==
    \/ \E r \in RefreshBodies : RefreshToken(r)
    \/ \E h \in AnyHeaders : Logout(h)
    \/ \E h \in AnyHeaders : GetProfile(h)
    \/ Later(TokenSteps)

SpecTokens == InitTokens /\ [][NextTokens]_vars

\* one client that logs in, refreshes its tokens and calls a protected route
NextRefresh ==
    \/ \E ip \in IPs, pw \in Passwords : LoginRequest(1, ip, "john@x.io", pw)
    \/ LoginVerify(1)
    \/ \E t \in RefreshTokensHeld : RefreshToken(Some(t))
    \/ \E h \in Bearers : GetProfile(h)
    \/ Advance(RefreshTicks)

SpecRefresh == Init /\ [][NextRefresh]_vars

\* password resets: reset requests, and resets that can race
NextReset ==
    \/ \E ip \in IPs, e \in Emails : RequestPasswordReset(ip, e)
    \/ \E p \in Procs, t \in ResetTokens, pw \in NewPasswords :
          ResetPasswordRequest(p, t, pw)
    \/ \E p \in Procs : ResetPasswordUpdate(p)
    \/ Soon(ResetTicks)

SpecReset == Init /\ [][NextReset]_vars

\* the requests of one client that write to its account: login, refresh,
\* password reset, email verification and profile update
NextAccounts ==
    \/ \E ip \in IPs : LoginRequest(1, ip, "john@x.io", "Test123!@#")
    \/ LoginVerify(1)
    \/ \E t \in RefreshTokensHeld : RefreshToken(Some(t))
    \/ \E ip \in IPs : RequestPasswordReset(ip, "john@x.io")
    \/ \E t \in ResetTokens : ResetPasswordRequest(1, t, "NewPass456!@#")
    \/ ResetPasswordUpdate(1)
    \/ \E t \in VerificationTokens : VerifyEmail(t)
    \/ \E h \in Bearers, b \in ProfileBodies : UpdateProfile(h, b)

SpecAccounts == Init /\ [][NextAccounts]_vars

\* one client sends login requests, minutes apart
NextLimiter ==
    \/ \E ip \in IPs, e \in Emails, pw \in Passwords : LoginRequest(1, ip, e, pw)
    \/ LoginVerify(1)
    \/ Soon(LimiterTicks)

SpecLimiter == Init /\ [][NextLimiter]_vars

\* the strategy workflow: a user and an administrator (whose row was seeded:
\* no route creates one), each holding the token pair of a login at time 0
InitStrategy ==
    /\ now = 0
    /\ users = (1 :> NewUserRow(1, "john@x.io", "Test123!@#")) @@
               (2 :> [NewUserRow(2, "admin@x.io", "Admin123!@#")
                         EXCEPT !.role = "admin"])
    /\ pc = [p \in Procs |-> "idle"]
    /\ req = [p \in Procs |-> Idle]
    /\ found = [p \in Procs |-> Null]
    /\ limiter = [r \in {"login", "register", "reset"} |->
                    [ip \in IPs |-> [hits |-> 0, resetTime |-> 0]]]
    /\ wallet = [i \in UserIds |-> Some(generateTokenPair(users[i], 0))]
    /\ last = NoResponse
    /\ wrongRun = [i \in UserIds |-> 0]
    /\ strategies = NoRows
    /\ cache = NoRows
    /\ history = NoHistory

NextStrategy ==
    \/ \E h \in Bearers, b \in CreateBodies : CreateStrategy(h, b, NoFault)
    \/ \E h \in Bearers, id \in StrategyIds, b \in UpdateBodies :
          UpdateStrategy(h, id, b, NoFault)
    \/ \E h \in Bearers, id \in StrategyIds : DeleteStrategy(h, id, NoFault)
    \/ \E h \in Bearers, id \in StrategyIds : SubmitForApproval(h, id)
    \/ \E h \in Bearers, id \in StrategyIds, b \in StatusBodies :
          UpdateStrategyStatus(h, id, b, NoFault)

SpecStrategy == InitStrategy /\ [][NextStrategy]_vars

\* strategies are created, edited, submitted and deleted, by their owners
\* and by others
NextOwnership ==
    \/ \E h \in Bearers, b \in CreateBodies : CreateStrategy(h, b, NoFault)
    \/ \E h \in Bearers, id \in StrategyIds, b \in EditBodies :
          UpdateStrategy(h, id, b, NoFault)
    \/ \E h \in Bearers, id \in StrategyIds : DeleteStrategy(h, id, NoFault)
    \/ \E h \in Bearers, id \in StrategyIds : SubmitForApproval(h, id)
    \/ Advance(StrategyTicks)

SpecOwnership == InitStrategy /\ [][NextOwnership]_vars

\* strategies are created, edited, submitted, decided and deleted, and read
\* by their id
NextViews ==
    \/ \E h \in Bearers, b \in CreateBodies : CreateStrategy(h, b, NoFault)
    \/ \E h \in Bearers, id \in StrategyIds : SubmitForApproval(h, id)
    \/ \E h \in Bearers, id \in StrategyIds, b \in DecisionBodies :
          UpdateStrategyStatus(h, id, b, NoFault)
    \/ \E h \in Bearers, id \in StrategyIds, b \in EditBodies :
          UpdateStrategy(h, id, b, NoFault)
    \/ \E h \in Bearers, id \in StrategyIds : DeleteStrategy(h, id, NoFault)
    \/ \E h \in Bearers \cup {Null}, id \in StrategyIds : GetStrategyById(h, id)

SpecViews == InitStrategy /\ [][NextViews]_vars

\* the admin routes, called with every kind of header while tokens age
NextAdminRoutes ==
    \/ \E h \in Bearers, b \in CreateBodies : CreateStrategy(h, b, NoFault)
    \/ \E h \in Bearers, id \in StrategyIds : SubmitForApproval(h, id)
    \/ \E h \in AnyHeaders : GetPendingStrategies(h)
    \/ \E h \in AnyHeaders, id \in StrategyIds, b \in StatusBodies :
          UpdateStrategyStatus(h, id, b, NoFault)
    \/ Later(TokenSteps)

SpecAdminRoutes == InitStrategy /\ [][NextAdminRoutes]_vars

\* the strategy workflow with the cached lists read in between
NextCache ==
    \/ \E h \in Bearers, b \in CreateBodies : CreateStrategy(h, b, NoFault)
    \/ \E h \in Bearers, id \in StrategyIds, b \in EditBodies :
          UpdateStrategy(h, id, b, NoFault)
    \/ \E h \in Bearers, id \in StrategyIds : DeleteStrategy(h, id, NoFault)
    \/ \E h \in Bearers, id \in StrategyIds : SubmitForApproval(h, id)
    \/ \E h \in Bearers, id \in StrategyIds, b \in DecisionBodies :
          UpdateStrategyStatus(h, id, b, NoFault)
    \/ \E h \in Bearers, q \in Queries : GetUserStrategies(h, q, NoFault)
    \/ GetTopStrategies(NoFault)
    \/ Advance(StrategyTicks)

SpecCache == InitStrategy /\ [][NextCache]_vars

\* the cached views and the writes, with a Redis client that can fail
NextCacheFaults ==
    \/ \E h \in Bearers, b \in CreateBodies, f \in CacheFaults :
          CreateStrategy(h, b, f)
    \/ \E h \in Bearers, id \in StrategyIds, f \in CacheFaults :
          DeleteStrategy(h, id, f)
    \/ \E h \in Bearers, q \in Queries, f \in CacheFaults :
          GetUserStrategies(h, q, f)
    \/ \E f \in CacheFaults : GetTopStrategies(f)
    \/ Advance(StrategyTicks)

SpecCacheFaults == InitStrategy /\ [][NextCacheFaults]_vars

(* ------------------------------- properties -------------------------- *)
\* the account a login request names
AccountOf(email) == findByEmail(email)[1]

\* C1: a login request for an existing account that five wrong passwords in
\* a row have locked, made while the lock timestamp has not passed, is
\* answered 423 ACCOUNT_LOCKED whatever password it carries.
C1_SixthLoginIsLocked ==
    [][\A p \in Procs, ip \in IPs, e \in Emails, pw \in Passwords :
          (/\ LoginRequest(p, ip, e, pw)
           /\ findByEmail(e) # Null
           /\ wrongRun[AccountOf(e).id] >= 5
           /\ AccountOf(e).lockUntil # Null
           /\ AccountOf(e).lockUntil[1] > now)
          => (last'.status = 423 /\ last'.code = "ACCOUNT_LOCKED")]_vars

\* C2: a step that brings a strategy to status approved or rejected is the
\* request of an admin account.
C2_OnlyAdminDecides ==
    [][\A id \in StrategyIds :
          (/\ id \in DOMAIN strategies'
           /\ strategies'[id].status \in {"approved", "rejected"}
           /\ (id \notin DOMAIN strategies
                  \/ strategies[id].status # strategies'[id].status))
          => (/\ last'.acct \in DOMAIN users
              /\ users[last'.acct].role = "admin")]_vars

\* C3: PUT /strategies/:id/status by an admin, with a valid body, on a
\* strategy that is not pending answers 400 INVALID_STATUS_TRANSITION and
\* leaves the strategy as it was.
C3_StatusOnlyFromPending ==
    [][\A h \in Bearers, id \in StrategyIds, b \in StatusBodies :
          (/\ UpdateStrategyStatus(h, id, b, NoFault)
           /\ Gate(h, requireAdmin).ok
           /\ StatusBodyIsValid(b)
           /\ findStrategyByPk(id) # Null
           /\ strategies[id].status # "pending")
          => (/\ last'.status = 400
              /\ last'.code = "INVALID_STATUS_TRANSITION"
              /\ strategies' = strategies)]_vars

\* C4: GET /strategies/my and GET /strategies/top never answer from a cache
\* entry that was stored before a successful create, update, delete or
\* status change which changed the result of the entry's query.
C4_NoStaleCachedList ==
    ~(/\ last.op \in {"getUserStrategies", "getTopStrategies"}
      /\ last.pre # Null
      /\ last.pre[1].stale)

\* C5: a login with a wrong password on an account the handler found not
\* locked answers 401 INVALID_CREDENTIALS with attemptsRemaining =
\* max(0, 5 - (old + 1)), old being the loginAttempts it read, and stores
\* loginAttempts = old + 1, unless old + 1 reaches 5: then it stores
\* lockUntil = now + 30 minutes and loginAttempts = 0.
C5_WrongPasswordCounts ==
    (/\ last.op = "login"
     /\ last.pre # Null
     /\ ~(last.pre[1].lockUntil # Null /\ last.pre[1].lockUntil[1] > now)
     /\ ~comparePassword(last.pre[1], last.password))
    => LET old == last.pre[1].loginAttempts
           row == users[last.acct]
       IN  /\ last.status = 401
           /\ last.code = "INVALID_CREDENTIALS"
           /\ last.body = [attemptsRemaining |-> Max(0, 5 - (old + 1))]
           /\ IF old + 1 >= 5
              THEN /\ row.lockUntil = Some(now + 30 * 60 * 1000)
                   /\ row.lockUntil[1] > now
                   /\ row.loginAttempts = 0
              ELSE row.loginAttempts = old + 1

\* the fifth wrong password in a row has just locked the account
C5_Witness ==
    /\ last.op = "login"
    /\ last.status = 401
    /\ last.pre # Null
    /\ last.pre[1].loginAttempts = 4
    /\ last.body.attemptsRemaining = 0
    /\ users[last.acct].lockUntil # Null
    /\ users[last.acct].loginAttempts = 0

\* C6: a login with the correct password on an account whose lockUntil is
\* null or not in the future answers 200 with a token pair of the account
\* and stores loginAttempts = 0, lockUntil = null and lastLogin = now.
C6_CorrectPasswordLogsIn ==
    (/\ last.op = "login"
     /\ last.pre # Null
     /\ (last.pre[1].lockUntil = Null \/ last.pre[1].lockUntil[1] <= now)
     /\ comparePassword(last.pre[1], last.password))
    => LET row == users[last.acct]
       IN  /\ last.status = 200
           /\ last.body.tokens.accessToken.payload.id = last.acct
           /\ last.body.tokens.accessToken.exp > now
           /\ last.body.tokens.refreshToken.payload.id = last.acct
           /\ last.body.tokens.refreshToken.exp > now
           /\ row.loginAttempts = 0
           /\ row.lockUntil = Null
           /\ row.lastLogin = Some(now)

\* a login succeeded on an account that carried a lock timestamp of the past
C6_Witness ==
    /\ last.op = "login"
    /\ last.status = 200
    /\ last.pre # Null
    /\ last.pre[1].lockUntil # Null
    /\ users[last.acct].lockUntil = Null

\* C7: a login request for an account whose lockUntil is in the future is
\* answered 423 ACCOUNT_LOCKED with the minutes that remain (rounded up),
\* whatever its password, and the stored row stays as it was read.
C7_LockedLoginIsRefused ==
    (/\ last.op = "login"
     /\ last.pre # Null
     /\ last.pre[1].lockUntil # Null
     /\ last.pre[1].lockUntil[1] > now)
    => LET left == last.pre[1].lockUntil[1] - now
       IN  /\ last.status = 423
           /\ last.code = "ACCOUNT_LOCKED"
           /\ last.body.lockTimeRemaining * 60000 >= left
           /\ (last.body.lockTimeRemaining - 1) * 60000 < left
           /\ users[last.acct] = last.pre[1]

\* a locked account was refused although the password was the right one
C7_Witness ==
    /\ last.op = "login"
    /\ last.status = 423
    /\ last.pre # Null
    /\ comparePassword(last.pre[1], last.password)
    /\ last.body.lockTimeRemaining = 30

\* C8: a request to a protected route that bears an access token of an
\* existing account, not expired, is answered 423 ACCOUNT_LOCKED while the
\* account's lockUntil is in the future and is admitted (200) when lockUntil
\* is null or has passed.
C8_LockGatesTheSession ==
    [][\A h \in Headers :
          (/\ GetProfile(h)
           /\ Len(h) = 2
           /\ h[1] = "Bearer"
           /\ h[2].secret = "JWT_SECRET"
           /\ now < h[2].exp
           /\ h[2].payload.id \in DOMAIN users)
          => LET u == users[h[2].payload.id]
             IN  IF u.lockUntil # Null /\ u.lockUntil[1] > now
                 THEN last'.status = 423 /\ last'.code = "ACCOUNT_LOCKED"
                 ELSE last'.status = 200]_vars

\* a token is admitted again after the lock of its account, which nothing
\* cleared, has passed
C8_Witness ==
    /\ last.op = "getProfile"
    /\ last.status = 200
    /\ users[last.acct].lockUntil # Null
    /\ users[last.acct].lockUntil[1] <= now

\* C9: the write of a failed login is computed from the loginAttempts the
\* handler read, also when the stored value has changed since (the last
\* writer wins).
C9_LastWriterWins ==
    [][\A p \in Procs :
          (/\ pc[p] = "login_verify"
           /\ LoginVerify(p)
           /\ ~comparePassword(found[p][1], req[p].password)
           /\ users[found[p][1].id].loginAttempts # found[p][1].loginAttempts)
          => users'[found[p][1].id].loginAttempts =
                IF found[p][1].loginAttempts + 1 >= 5 THEN 0
                ELSE found[p][1].loginAttempts + 1]_vars

\* more than five wrong passwords in a row, the counter behind their number
\* and the account never locked
C9_Witness ==
    \E a \in DOMAIN users :
        /\ wrongRun[a] > 5
        /\ users[a].lockUntil = Null
        /\ users[a].loginAttempts < wrongRun[a]

\* C10: a register request for an address whose lower-cased form belongs to
\* an account is answered 409 USER_EXISTS (unless the rate limiter answers),
\* and no account is created for it.
C10_DuplicateEmailRefused ==
    [][\A p \in Procs, ip \in IPs, b \in RegisterBodies :
          (/\ RegisterRequest(p, ip, b)
           /\ \E i \in DOMAIN users : users[i].email = toLowerCase(b.email)
           /\ last'.status # 429)
          => (/\ last'.status = 409
              /\ last'.code = "USER_EXISTS"
              /\ users' = users
              /\ pc'[p] = "idle")]_vars

\* the address of an account that was registered here is refused
C10_Witness ==
    /\ last.op = "register"
    /\ last.status = 409
    /\ last.code = "USER_EXISTS"
    /\ last.acct = 2
    /\ Cardinality(DOMAIN users) = 2

\* C11: however register requests interleave, two requests for one address
\* in different letter case included, no two accounts share a case-folded
\* address, and a request that reaches the INSERT after another request took
\* its address is answered 409 (not 201, not 500) and creates nothing.
C11_OneAccountPerEmail ==
    [][/\ \A i, j \in DOMAIN users' :
             toLowerCase(users'[i].email) = toLowerCase(users'[j].email) => i = j
       /\ \A p \in Procs :
             (/\ pc[p] = "register_create"
              /\ RegisterCreate(p)
              /\ \E i \in DOMAIN users :
                    toLowerCase(users[i].email) = toLowerCase(req[p].body.email))
             => (/\ last'.status = 409
                 /\ users' = users)]_vars

\* john@x.io and John@X.io raced: one account exists and the request that
\* typed John@X.io lost
C11_Witness ==
    /\ last.op = "register"
    /\ last.status = 409
    /\ last.code = "EMAIL_EXISTS"
    /\ last.email = "John@X.io"
    /\ Cardinality(DOMAIN users) = 1
    /\ users[1].email = "john@x.io"

\* C12: a registration that succeeds answers 201 with an access token and a
\* refresh token of the new account, stores the account with role user
\* whether or not the body carries a role field, and returns the account
\* without its password.
C12_RegisteredAsUser ==
    [][\A p \in Procs :
          (/\ pc[p] = "register_create"
           /\ RegisterCreate(p)
           /\ ~\E i \in DOMAIN users :
                  users[i].email = toLowerCase(req[p].body.email))
          => LET id == last'.acct
             IN  /\ last'.status = 201
                 /\ id \in DOMAIN users' \ DOMAIN users
                 /\ users'[id].email = toLowerCase(req[p].body.email)
                 /\ users'[id].role = "user"
                 /\ last'.body.tokens.accessToken.secret = "JWT_SECRET"
                 /\ last'.body.tokens.accessToken.payload.id = id
                 /\ last'.body.tokens.accessToken.payload.role = "user"
                 /\ last'.body.tokens.accessToken.exp > now
                 /\ last'.body.tokens.refreshToken.secret = "JWT_REFRESH_SECRET"
                 /\ last'.body.tokens.refreshToken.payload.id = id
                 /\ last'.body.tokens.refreshToken.exp > now
                 /\ last'.body.user.id = id
                 /\ last'.body.user.role = "user"
                 /\ "password" \notin DOMAIN last'.body.user]_vars

\* an account was registered by a body that asked for the role admin
C12_Witness ==
    /\ last.op = "register"
    /\ last.status = 201
    /\ last.role = Some("admin")
    /\ users[last.acct].role = "user"
    /\ last.body.tokens.accessToken.payload.role = "user"

\* the server state: everything but the response, the tokens clients hold
\* and the history
serverState == << now, users, pc, req, found, limiter, strategies, cache >>

C14_SecretsAreDistinct ==
    [][/\ \A r \in RefreshBodies :
             (/\ RefreshToken(r)
              /\ r # Null
              /\ (r[1].secret # "JWT_REFRESH_SECRET" \/ now >= r[1].exp))
             => (/\ last'.status = 401
                 /\ last'.body = Null
                 /\ wallet' = wallet)
       /\ \A h \in AnyHeaders :
             (/\ GetProfile(h)
              /\ h # Null
              /\ h[1] = "Bearer"
              /\ h[2].secret = "JWT_REFRESH_SECRET")
             => (/\ last'.status = 401
                 /\ last'.code = "INVALID_TOKEN")]_vars

\* an access token that has not expired was refused by POST /auth/refresh
C14_Witness ==
    /\ last.op = "refreshToken"
    /\ last.status = 401
    /\ last.code = "INVALID_REFRESH_TOKEN"
    /\ last.token[1].secret = "JWT_SECRET"
    /\ now < last.token[1].exp
    /\ last.token[1].payload.id \in DOMAIN users

\* C15 (as stated): the request that bears the access token a successful
\* POST /auth/refresh has just issued is admitted by authenticate.
C15_RefreshedTokenAdmitted ==
    [][\A h \in Bearers :
          (/\ GetProfile(h)
           /\ last.op = "refreshToken"
           /\ last.status = 200
           /\ h[2] = last.body.tokens.accessToken)
          => last'.status = 200]_vars

\* C15: the request that bears the access token a successful POST
\* /auth/refresh has just issued is admitted by authenticate with the account
\* of the refresh token attached, unless that account is locked: then it is
\* answered 423 ACCOUNT_LOCKED (the refresh handler does not look at the lock).
C15_RefreshedTokenAdmittedUnlessLocked ==
    [][\A h \in Bearers :
          (/\ GetProfile(h)
           /\ last.op = "refreshToken"
           /\ last.status = 200
           /\ h[2] = last.body.tokens.accessToken)
          => LET u == users[last.token[1].payload.id]
             IN  IF u.lockUntil # Null /\ u.lockUntil[1] > now
                 THEN last'.status = 423 /\ last'.code = "ACCOUNT_LOCKED"
                 ELSE /\ last'.status = 200
                      /\ last'.body.user = u]_vars

\* the tokens of a refresh made while the account is locked (no login has
\* succeeded at that time) were refused by authenticate
C15_Witness ==
    /\ last.op = "getProfile"
    /\ last.status = 423
    /\ history.refreshed # {}
    /\ wallet[1] # Null
    /\ wallet[1][1].accessToken.exp = now + accessExpiresIn
    /\ users[1].lastLogin # Some(now)
    /\ users[1].lockUntil # Null
    /\ users[1].lockUntil[1] > now

\* C16: authenticate lets a request through to the handler, with the loaded
\* account attached, only when the header carries a bearer token that
\* verifies as an access token and names an existing account; a request
\* that fails one of these is answered by the first check it fails, in the
\* order 401 NO_TOKEN (no header, or a header that is not "Bearer <token>"),
\* 401 TOKEN_EXPIRED (an access token past its expiry), 401 INVALID_TOKEN
\* (a token that fails verification otherwise), 401 USER_NOT_FOUND (no
\* account of that id), and the handler does not run.
C16_AuthenticateChecks ==
    [][\A h \in AnyHeaders :
          GetProfile(h)
          => LET present  == h # Null /\ Len(h) = 2 /\ h[1] = "Bearer"
                 signed   == h[2].secret = "JWT_SECRET"
                 expired  == now >= h[2].exp
                 existing == h[2].payload.id \in DOMAIN users
             IN  /\ last'.status = 200
                    => (/\ present /\ signed /\ ~expired /\ existing
                        /\ last'.body.user = users[h[2].payload.id])
                 /\ ~present
                    => (last'.status = 401 /\ last'.code = "NO_TOKEN")
                 /\ (present /\ signed /\ expired)
                    => (last'.status = 401 /\ last'.code = "TOKEN_EXPIRED")
                 /\ (present /\ ~signed)
                    => (last'.status = 401 /\ last'.code = "INVALID_TOKEN")
                 /\ (present /\ signed /\ ~expired /\ ~existing)
                    => (last'.status = 401 /\ last'.code = "USER_NOT_FOUND")]_vars

\* an access token that verifies names an account whose row is gone
C16_Witness ==
    /\ last.op = "getProfile"
    /\ last.status = 401
    /\ last.code = "USER_NOT_FOUND"
    /\ last.acct = 2
    /\ 2 \notin DOMAIN users

\* the account a header names, whatever the state of its token
HeaderNamesUser(h) ==
    /\ h # Null
    /\ h[2].payload.id \in DOMAIN users
    /\ users[h[2].payload.id].role = "user"

\* a request to one of the admin routes is taken with the header h
AdminRouteStep(h) ==
    \/ GetPendingStrategies(h)
    \/ \E id \in StrategyIds, b \in StatusBodies : UpdateStrategyStatus(h, id, b, NoFault)

\* C17 (as stated): a request to an admin-only route in the name of an
\* account of role user is answered 403 INSUFFICIENT_PERMISSIONS whether its
\* token is valid or not, and the admin handler does not run.
C17_UserGets403 ==
    [][\A h \in AnyHeaders :
          (HeaderNamesUser(h) /\ AdminRouteStep(h))
          => (/\ last'.status = 403
              /\ last'.code = "INSUFFICIENT_PERMISSIONS"
              /\ strategies' = strategies)]_vars

\* C17: a request to an admin-only route in the name of an account of role
\* user never runs the admin handler; it is answered 403
\* INSUFFICIENT_PERMISSIONS when it bears an access token that authenticate
\* admits, and otherwise 401 (or 423) by authenticate with the code of the
\* check that failed.
C17_UserNeverReachesAdminHandler ==
    [][\A h \in AnyHeaders :
          (HeaderNamesUser(h) /\ AdminRouteStep(h))
          => (/\ strategies' = strategies
              /\ last'.body = Null
              /\ IF authenticate(h).next
                 THEN /\ last'.status = 403
                      /\ last'.code = "INSUFFICIENT_PERMISSIONS"
                 ELSE /\ last'.status \in {401, 423}
                      /\ last'.status = authenticate(h).status
                      /\ last'.code = authenticate(h).code)]_vars

\* a user with a valid token was refused the decision on a pending strategy
C17_Witness ==
    /\ last.op = "updateStrategyStatus"
    /\ last.status = 403
    /\ last.code = "INSUFFICIENT_PERMISSIONS"
    /\ users[last.acct].role = "user"
    /\ \E id \in DOMAIN strategies : strategies[id].status = "pending"

\* C18: POST /strategies/:id/submit on an existing strategy, by a caller the
\* route admits: a caller who is not the owner (an admin included) is
\* answered 403; the owner of a strategy that is not draft (a pending one
\* included) is answered 400 INVALID_STATUS_TRANSITION; in both cases the
\* strategy stays as it was; the owner of a draft is answered 200 and the
\* strategy becomes pending with rejectionReason null, nothing else changed.
C18_SubmitOnlyOwnDraft ==
    [][\A h \in Bearers, id \in StrategyIds :
          (/\ SubmitForApproval(h, id)
           /\ Gate(h, requireUser).ok
           /\ findStrategyByPk(id) # Null)
          => LET caller == Gate(h, requireUser).user[1]
                 s      == strategies[id]
             IN  IF s.createdBy # caller.id
                 THEN /\ last'.status = 403
                      /\ strategies' = strategies
                 ELSE IF s.status # "draft"
                 THEN /\ last'.status = 400
                      /\ last'.code = "INVALID_STATUS_TRANSITION"
                      /\ strategies' = strategies
                 ELSE /\ last'.status = 200
                      /\ strategies' = [strategies EXCEPT ![id] =
                            [s EXCEPT !.status = "pending",
                                      !.rejectionReason = Null]]]_vars

\* an admin was refused the submission of a user's draft
C18_Witness ==
    /\ last.op = "submitForApproval"
    /\ last.status = 403
    /\ last.code = "SUBMIT_ACCESS_DENIED"
    /\ users[last.acct].role = "admin"
    /\ \E id \in DOMAIN strategies :
          /\ strategies[id].status = "draft"
          /\ strategies[id].createdBy # last.acct

\* C19: PUT /strategies/:id with a body that names no status, by the owner
\* of a strategy whose status is approved or rejected: when the owner is not
\* an admin the stored status becomes draft and approvedBy and approvedAt
\* become null; when the owner is an admin the status stays as it was.
C19_OwnerEditResetsToDraft ==
    [][\A h \in Bearers, id \in StrategyIds, b \in UpdateBodies :
          (/\ UpdateStrategy(h, id, b, NoFault)
           /\ b.status = Null
           /\ Gate(h, requireUser).ok
           /\ findStrategyByPk(id) # Null
           /\ strategies[id].createdBy = Gate(h, requireUser).user[1].id
           /\ strategies[id].status \in {"approved", "rejected"})
          => IF Gate(h, requireUser).user[1].role # "admin"
             THEN /\ last'.status = 200
                  /\ strategies'[id].status = "draft"
                  /\ strategies'[id].approvedBy = Null
                  /\ strategies'[id].approvedAt = Null
             ELSE strategies'[id].status = strategies[id].status]_vars

\* C20: PUT /strategies/:id/status by an admin.  On a pending strategy,
\* approved stores status approved, approvedBy = the admin's id, approvedAt
\* = now and rejectionReason = null, and rejected with a reason of 10 to 500
\* characters stores status rejected, that reason and null approvedBy and
\* approvedAt.  A rejection whose reason is missing, shorter than 10 or
\* longer than 500 characters is answered 400 VALIDATION_ERROR and the
\* strategy stays as it was.
C20_DecisionIsStored ==
    [][\A h \in Bearers, id \in StrategyIds, b \in StatusBodies :
          (/\ UpdateStrategyStatus(h, id, b, NoFault)
           /\ Gate(h, requireAdmin).ok
           /\ b.status \in {"approved", "rejected"})
          => LET admin == Gate(h, requireAdmin).user[1]
                 long  == /\ b.rejectionReason # Null
                          /\ Len(b.rejectionReason[1]) >= 10
                          /\ Len(b.rejectionReason[1]) <= 500
             IN  IF b.status = "rejected" /\ ~long
                 THEN /\ last'.status = 400
                      /\ last'.code = "VALIDATION_ERROR"
                      /\ strategies' = strategies
                 ELSE (findStrategyByPk(id) # Null /\ strategies[id].status = "pending")
                      => /\ last'.status = 200
                         /\ strategies' = [strategies EXCEPT ![id] =
                               IF b.status = "approved"
                               THEN [@ EXCEPT !.status = "approved",
                                              !.approvedBy = Some(admin.id),
                                              !.approvedAt = Some(now),
                                              !.rejectionReason = Null]
                               ELSE [@ EXCEPT !.status = "rejected",
                                              !.rejectionReason = b.rejectionReason,
                                              !.approvedBy = Null,
                                              !.approvedAt = Null]]]_vars

\* a pending strategy of a user was rejected with a reason
C20_Witness ==
    /\ last.op = "updateStrategyStatus"
    /\ last.status = 200
    /\ users[last.acct].role = "admin"
    /\ \E id \in DOMAIN strategies :
          /\ strategies[id].status = "rejected"
          /\ strategies[id].rejectionReason = Some("no stop loss rule")
          /\ strategies[id].approvedBy = Null
          /\ strategies[id].createdBy # last.acct

\* what a caller sees of a response: the status, the code and the names of
\* the fields that come with it
ResponseShape(r) ==
    [status |-> r.status, code |-> r.code,
     fields |-> IF r.body = Null THEN {} ELSE DOMAIN r.body]

\* the response of a login for an address that has no account
UnknownEmailShape ==
    ResponseShape(LoginResponse(Idle, 0, Null, 401, "INVALID_CREDENTIALS", Null))

\* C21: the response to a login with a wrong password on an existing account
\* has the status, the code and the body fields of the response to a login
\* for an address that has no account.
C21_LoginHidesAccounts ==
    (/\ last.op = "login"
     /\ last.pre # Null
     /\ ~(last.pre[1].lockUntil # Null /\ last.pre[1].lockUntil[1] > now)
     /\ ~comparePassword(last.pre[1], last.password))
    => ResponseShape(last) = UnknownEmailShape

\* C22: POST /auth/password/reset-request answers 200, and its response for
\* an address that has an account has the status, the code and the body
\* fields of its response for an address that has none.
C22_ResetRequestHidesAccounts ==
    last.op = "requestPasswordReset"
    => (/\ last.status = 200
        /\ ResponseShape(last) =
              ResponseShape(ResetResponse("requestPasswordReset", Null, 0, Null,
                                          200, "", Null)))

\* the issue of a reset token
IssueOf(token) == CHOOSE i \in history.issued : i.token = token

\* a later reset token was issued for the account of the token
Superseded(token) ==
    \E j \in history.issued :
        /\ j.acct = IssueOf(token).acct
        /\ j.token[2] > token[2]

\* C30: resetPassword answers 200 for a reset token at most once and only
\* for a token issued less than ten minutes before the lookup; the reset
\* that succeeds stores null for the token hash and its expiry; a token that
\* has expired, or that a later token of the account has replaced, is
\* refused 400 INVALID_RESET_TOKEN.
C30_ResetTokenOnce ==
    [][/\ \A p \in Procs :
             ResetPasswordUpdate(p)
             => (/\ req[p].token \notin history.reset
                 /\ users'[found[p][1].id].passwordResetToken = Null
                 /\ users'[found[p][1].id].passwordResetExpires = Null)
       /\ \A p \in Procs, t \in ResetTokens, pw \in NewPasswords :
             (/\ ResetPasswordRequest(p, t, pw)
              /\ \E i \in history.issued : i.token = t
              /\ (now >= IssueOf(t).at + 10 * 60 * 1000 \/ Superseded(t)))
             => (/\ last'.status = 400
                 /\ last'.code = "INVALID_RESET_TOKEN"
                 /\ users' = users)]_vars


\* C23: the limiters behave as a sliding window: at no time have more than
\* five requests passed the login limiter from one address in the fifteen
\* minutes before, and a request that is answered 429 RATE_LIMIT_EXCEEDED
\* reaches no handler and changes no account
C23_LoginWindowSlides ==
    [][/\ Len(history'.logins) <= loginMax
       /\ last'.status = 429 =>
            /\ last'.code = "RATE_LIMIT_EXCEEDED"
            /\ users' = users
            /\ pc' = pc
            /\ history' = history]_vars


\* the answer of getUserStrategies when caching is disabled
UncachedUserStrategies(authHeader, q) ==
    LET g == Gate(authHeader, requireUser)
    IN  IF ~g.ok THEN Refused("getUserStrategies", g)
        ELSE StrategyResponse("getUserStrategies", g.user[1].id, Null, 200, "",
                 [data |-> UserStrategiesData(strategies, g.user[1].id, q),
                  cached |-> FALSE])

\* the answer of getTopStrategies when caching is disabled
UncachedTopStrategies ==
    StrategyResponse("getTopStrategies", 0, Null, 200, "",
        [data |-> [strategies |-> TopPerforming(strategies)], cached |-> FALSE])

\* C24: a request during which a call of the Redis client fails (the get,
\* or the set that follows a miss, or the del of a write) is never answered
\* with a 5xx status because of it; a read is then answered with the status
\* and the data it has when caching is disabled, and leaves the table alone
C24_CacheFailuresAreMisses ==
    [][/\ last'.op \in {"createStrategy", "deleteStrategy", "updateStrategyStatus",
                        "getUserStrategies", "getTopStrategies"}
             => last'.status < 500
       /\ last'.op = "getUserStrategies" =>
             \A h \in Bearers, q \in Queries, f \in CacheFaults :
                (/\ GetUserStrategies(h, q, f)
                 /\ \/ "get" \in f
                    \/ "set" \in f /\ redisGet(UserStrategiesKey(last'.acct, q),
                                               NoFault) = Null)
                => last' = UncachedUserStrategies(h, q) /\ strategies' = strategies
       /\ last'.op = "getTopStrategies" =>
             \A f \in CacheFaults :
                (/\ GetTopStrategies(f)
                 /\ \/ "get" \in f
                    \/ "set" \in f /\ redisGet(TopKey("10"), NoFault) = Null)
                => last' = UncachedTopStrategies /\ strategies' = strategies]_vars

\* the strategies of a caller were read while their key was cached and the
\* get failed: the answer is not the cached one, which a write has outdated
C24_Witness ==
    /\ last.op = "getUserStrategies"
    /\ last.status = 200
    /\ ~last.body.cached
    /\ \E q \in Queries :
          LET key == UserStrategiesKey(last.acct, q)
          IN  /\ key \in DOMAIN cache
              /\ now < cache[key].expires
              /\ cache[key].stale

\* A step of PUT or DELETE /strategies/:id by a caller who passed
\* authenticate and requireUser: for an id that is unknown or deleted the
\* answer is 404 STRATEGY_NOT_FOUND, for a strategy of somebody else and a
\* caller who is no admin it is 403 with the given code, and in both cases
\* the table is left as it was.
AccessRefusals(putCode, deleteCode) ==
    \A h \in Bearers, id \in StrategyIds :
        LET g       == Gate(h, requireUser)
            missing == id \notin DOMAIN strategies \/ strategies[id].deletedAt # Null
            foreign == /\ ~missing
                       /\ strategies[id].createdBy # g.user[1].id
                       /\ users[g.user[1].id].role # "admin"
            Answer(op, code) ==
                /\ last'.op = op
                /\ missing => last'.status = 404 /\ last'.code = "STRATEGY_NOT_FOUND"
                /\ foreign => last'.status = 403 /\ last'.code = code
                /\ missing \/ foreign => strategies' = strategies
        IN  g.ok =>
              /\ \A b \in EditBodies :
                    UpdateStrategy(h, id, b, NoFault) => Answer("updateStrategy", putCode)
              /\ DeleteStrategy(h, id, NoFault) => Answer("deleteStrategy", deleteCode)

\* C25 (as stated): PUT or DELETE /strategies/:id by a caller who is neither
\* the owner nor an admin is answered 403 STRATEGY_ACCESS_DENIED, for an
\* unknown or deleted id 404 STRATEGY_NOT_FOUND, and nothing is changed
C25_AccessDeniedCode ==
    [][AccessRefusals("STRATEGY_ACCESS_DENIED", "STRATEGY_ACCESS_DENIED")]_vars

\* C25 (amended): the 403 of PUT carries the code UPDATE_ACCESS_DENIED and
\* the 403 of DELETE the code DELETE_ACCESS_DENIED; for an unknown or deleted
\* id both answer 404 STRATEGY_NOT_FOUND; in all these cases no strategy is
\* modified or deleted
C25_RefusedWritesChangeNothing ==
    [][AccessRefusals("UPDATE_ACCESS_DENIED", "DELETE_ACCESS_DENIED")]_vars

\* a user was refused the deletion of a strategy of the admin
C25_Witness ==
    /\ last.op = "deleteStrategy"
    /\ last.status = 403
    /\ last.acct = 1
    /\ \E id \in DOMAIN strategies :
          strategies[id].createdBy = 2 /\ strategies[id].deletedAt = Null


\* C26: in every reachable state an approved strategy has approvedBy set to
\* the id of an admin account, approvedAt set and no rejection reason, and
\* a rejected strategy has a rejection reason that is not empty and neither
\* approvedBy nor approvedAt
C26_DecisionFieldsMatchStatus ==
    \A id \in DOMAIN strategies :
        LET s == strategies[id]
        IN  /\ s.status = "approved" =>
                /\ s.approvedBy # Null
                /\ s.approvedBy[1] \in DOMAIN users
                /\ users[s.approvedBy[1]].role = "admin"
                /\ s.approvedAt # Null
                /\ s.rejectionReason = Null
            /\ s.status = "rejected" =>
                /\ s.rejectionReason # Null
                /\ s.rejectionReason[1] # ""
                /\ s.approvedBy = Null
                /\ s.approvedAt = Null


\* C27: whatever the interleaving of login requests, the stored
\* loginAttempts of every account is between 0 and 4
C27_AttemptsInRange ==
    \A i \in DOMAIN users :
        users[i].loginAttempts >= 0 /\ users[i].loginAttempts <= maxAttempts - 1

\* a wrong password was answered while another login request for the account
\* is in flight, and the account stands at four failed attempts
C27_Witness ==
    /\ last.op = "login"
    /\ last.status = 401
    /\ last.acct = 1
    /\ users[1].loginAttempts = maxAttempts - 1
    /\ \E p \in Procs : pc[p] = "login_verify" /\ found[p][1].id = 1


\* C28: GET /strategies/:id answers 200 with the strategy when it is public
\* and approved, whoever calls; a strategy that is not both is returned to
\* its owner and to admins, who are known by their bearer token, and every
\* other caller is answered 403 STRATEGY_ACCESS_DENIED
C28_OwnerAndAdminRead ==
    [][\A h \in Bearers \cup {Null}, id \in DOMAIN strategies :
          GetStrategyById(h, id) /\ strategies[id].deletedAt = Null =>
             LET s      == strategies[id]
                 caller == optionalAuth(h)
                 open   == s.isPublic /\ s.status = "approved"
                 own    == /\ caller # Null
                           /\ \/ s.createdBy = caller[1].id
                              \/ caller[1].role = "admin"
             IN  IF open \/ own
                 THEN last'.status = 200 /\ last'.body = [strategy |-> s]
                 ELSE last'.status = 403 /\ last'.code = "STRATEGY_ACCESS_DENIED"]_vars


\* C29: no request changes the role or the address of an account that
\* exists, and no account disappears: login, refresh, password reset, email
\* verification and profile update leave both columns as they are, whatever
\* the body of the request carries
C29_RoleAndEmailFixed ==
    [][\A i \in DOMAIN users :
          /\ i \in DOMAIN users'
          /\ users'[i].role = users[i].role
          /\ users'[i].email = users[i].email]_vars

\* a profile update whose body named the role admin and another address was
\* answered 200 and stored the first name it carried
C29_Witness ==
    /\ last.op = "updateProfile"
    /\ last.status = 200
    /\ users[last.acct].firstName = "Johnny"
    /\ users[last.acct].role = "user"
    /\ users[last.acct].isEmailVerified

=============================================================================
